---------------------------- MODULE Spec2Model ----------------------------
(***************************************************************************)
(* A model of the Salesforce schema pipeline of this repository:           *)
(*   - SchemaOptimizer   (src/salesforce/scripts/split_schema_by_object.py)*)
(*   - SchemaEnricher    (src/scripts/enrich_schema_with_picklists.py)     *)
(*   - SalesforceSchemaParser (src/scripts/generate_sf_er_schema.py)       *)
(*                                                                         *)
(* Python values are encoded as follows.  A dict is a function whose       *)
(* DOMAIN is the set of its keys (an absent key is absent from the         *)
(* DOMAIN).  A list is a sequence.  A file that may or may not exist is a  *)
(* sequence of length 0 (no file) or 1 (the loaded payload).  Timestamps   *)
(* (generated_date, enriched_date) and the comment header of a YAML file   *)
(* are not part of a payload: yaml.safe_load drops comments.               *)
(***************************************************************************)
EXTENDS Integers, Sequences, FiniteSets, TLC

VARIABLES
    objects,        \* SchemaOptimizer.objects: the loaded object list
    relationships,  \* SchemaOptimizer.relationships: the loaded edge list
    splitPos,       \* split_objects: index of the next object of the loop
    splitLog,       \* split_objects: per object, "ok" or where it raised
    disk,           \* the partitioned tree objects/: name -> its files
    unwritable,     \* the paths <<name, kind>> that cannot be created or written
    interrupts,     \* how many runs on the output directory were interrupted
    index,          \* the file _index.yaml
    searchIndex,    \* the file _search_index.yaml
    categories,     \* the folder categories/: category -> <category>.yaml
    org,            \* the live org: object name -> outcome of `sf sobject describe`
    toProcess,      \* enrich_all_objects: objects_to_process
    dryRun,         \* enrich_all_objects: dry_run
    enrichPos,      \* enrich_all_objects: index of the next object of the loop
    stats,          \* SchemaEnricher.enrichment_stats
    returns,        \* what each call of enrich_object_schema returned, in order
    tree,           \* SalesforceSchemaParser.objects_path: the metadata tree
    parserSchema,   \* SalesforceSchemaParser.schema['salesforce_schema']
    parsePos,       \* parse_all_objects: index of the next directory of the loop
    parseLog,       \* parse_all_objects: per directory, "ok" or "failed"
    parseRet,       \* what parse_all_objects returned (None before it returns)
    phase           \* which program is running and where it is

splitterVars == <<objects, relationships, splitPos, splitLog, unwritable, interrupts,
                  index, searchIndex, categories>>

SplitterIdle ==
    /\ objects = <<>>
    /\ relationships = <<>>
    /\ splitPos = 1
    /\ splitLog = <<>>
    /\ unwritable = {}
    /\ interrupts = 0
    /\ index = <<>>          \* no file
    /\ searchIndex = <<>>    \* no file
    /\ categories = <<>>     \* no category

enricherVars == <<org, toProcess, dryRun, enrichPos, stats, returns>>

parserVars == <<tree, parserSchema, parsePos, parseLog, parseRet>>

\* SalesforceSchemaParser.__init__ on a path that is not looked at.
ParserIdle ==
    /\ tree = [kind |-> "missing"]
    /\ parserSchema = [objects |-> <<>>, relationships |-> <<>>, total_objects |-> 0]
    /\ parsePos = 1
    /\ parseLog = <<>>
    /\ parseRet = "None"

vars == <<objects, relationships, splitPos, splitLog, disk, unwritable, interrupts,
          index, searchIndex, categories,
          org, toProcess, dryRun, enrichPos, stats, returns,
          tree, parserSchema, parsePos, parseLog, parseRet, phase>>

-----------------------------------------------------------------------------
(* Bounds of the model.                                                    *)

MaxObjects == 2      \* objects in the document given to the Splitter
MaxFields == 2       \* fields in that document, over all its objects; fields of an enriched object
MaxCalls == 2        \* objects in the list enrich_all_objects goes through
MaxDirs == 2         \* object directories in the tree given to the Parser
MaxDocs == 2         \* field documents in one object directory
MaxInterrupts == 1   \* runs of the Splitter interrupted before the one that completes

-----------------------------------------------------------------------------
(* Python dict helpers.                                                    *)

EmptyDict == <<>>

Has(d, k) == k \in DOMAIN d

Get(d, k, default) == IF k \in DOMAIN d THEN d[k] ELSE default

Put(d, k, v) == [x \in (DOMAIN d) \cup {k} |-> IF x = k THEN v ELSE d[x]]

Pop(d, k) == [x \in (DOMAIN d) \ {k} |-> d[x]]

SeqsUpTo(S, n) == UNION {[1..k -> S] : k \in 0..n}

NoFile == <<>>

File(payload) == <<payload>>

Exists(f) == f /= NoFile

\* enrichment_stats as SchemaEnricher.__init__ sets it.
NoStats ==
    [objects_processed |-> 0, fields_enriched |-> 0, picklists_added |-> 0,
     formulas_added |-> 0, errors |-> <<>>, picklist_files_created |-> 0,
     formula_files_created |-> 0]

\* No Enricher is running.
EnricherIdle ==
    /\ org = EmptyDict
    /\ toProcess = <<>>
    /\ dryRun = FALSE
    /\ enrichPos = 1
    /\ stats = NoStats
    /\ returns = <<>>

-----------------------------------------------------------------------------
(* SchemaOptimizer (the Splitter).                                         *)

PicklistNote(obj_name) == <<"Picklist values available in", obj_name, "picklists.yaml">>

FormulaNote(obj_name) == <<"Formula definition available in", obj_name, "formulas.yaml">>

HasPicklistValues(field) ==
    Has(field, "picklist_values") /\ field["picklist_values"] /= <<>>

HasFormula(field) ==
    Has(field, "formula") /\ field["formula"] /= ""

\* CoreField, stripping picklist_values whenever the key is there (also an
\* empty list, which no payload records).
CoreFieldStripsEmptyList(field, obj_name) ==
    LET c1 == IF Has(field, "picklist_values")
              THEN Put(Pop(field, "picklist_values"), "_note", PicklistNote(obj_name))
              ELSE field
    IN  IF HasFormula(field)
        THEN Put(Pop(c1, "formula"), "_note", FormulaNote(obj_name))
        ELSE c1

\* One iteration of the loop of _extract_field_metadata: the core field.
CoreField(field, obj_name) ==
    LET c1 == IF HasPicklistValues(field)
              THEN Put(Pop(field, "picklist_values"), "_note", PicklistNote(obj_name))
              ELSE field
    IN  IF HasFormula(field)
        THEN Put(Pop(c1, "formula"), "_note", FormulaNote(obj_name))
        ELSE c1

\* The dict a loop builds by `d[key(i)] = value(i)` for the indexes in
\* `hits`, in increasing order: a later assignment replaces an earlier one.
Collected(hits, key(_), value(_)) ==
    [k \in {key(i) : i \in hits} |->
        value(CHOOSE i \in hits : key(i) = k /\ \A j \in hits : key(j) = k => j <= i)]

\* ExtractFieldMetadata that also records an empty picklist_values list.
ExtractFieldMetadataKeepsEmpty(fields, obj_name) ==
    LET field_name(i) == Get(fields[i], "api_name", "")
        pick(i) == fields[i]["picklist_values"]
        form(i) == fields[i]["formula"]
    IN  [picklists |->
             Collected({i \in 1..Len(fields) : Has(fields[i], "picklist_values")}, field_name, pick),
         formulas |->
             Collected({i \in 1..Len(fields) : HasFormula(fields[i])}, field_name, form),
         core_fields |-> [i \in 1..Len(fields) |-> CoreField(fields[i], obj_name)]]

\* _extract_field_metadata: (picklists, formulas, core_fields).
ExtractFieldMetadata(fields, obj_name) ==
    LET field_name(i) == Get(fields[i], "api_name", "")
        pick(i) == fields[i]["picklist_values"]
        form(i) == fields[i]["formula"]
    IN  [picklists |->
             Collected({i \in 1..Len(fields) : HasPicklistValues(fields[i])}, field_name, pick),
         formulas |->
             Collected({i \in 1..Len(fields) : HasFormula(fields[i])}, field_name, form),
         core_fields |-> [i \in 1..Len(fields) |-> CoreField(fields[i], obj_name)]]

\* LoadedFields when the loop works on the fields themselves.
LoadedFieldsInPlace(fields, obj_name) == ExtractFieldMetadata(fields, obj_name).core_fields

\* What _extract_field_metadata leaves in the list it was given, which is the
\* list of the loaded object: the loop pops from and annotates
\* `core_field = field.copy()`, so every field keeps its keys.
LoadedFields(fields, obj_name) == fields

\* Python's None, where a dict.get() without default misses.
None == "None"

\* The files of one object under objects/: the folder objects/<name>/ with
\* schema.yaml, picklists.yaml and formulas.yaml, and the single file
\* objects/<name>.yaml of the legacy layout.
NoPartition ==
    [folder |-> FALSE, schema |-> NoFile, picklists |-> NoFile,
     formulas |-> NoFile, legacy |-> NoFile]

Partition(d, obj_name) == Get(d, obj_name, NoPartition)

\* obj_name of split_objects.
ObjName(obj) == Get(obj, "api_name", "Unknown")

RECURSIVE SelectRelated(_, _)
SelectRelated(rels, obj_name) ==
    IF rels = <<>> THEN <<>>
    ELSE LET rest == SelectRelated(Tail(rels), obj_name)
             rel  == Head(rels)
         IN  IF Get(rel, "from_object", None) = obj_name
                \/ Get(rel, "to_object", None) = obj_name
             THEN <<rel>> \o rest
             ELSE rest

GetRelationshipsForObject(obj_name) == SelectRelated(relationships, obj_name)

\* schema_data of split_objects (timestamps and source path left out).
SchemaData(obj, obj_name, m) ==
    [object |->
        [api_name |-> Get(obj, "api_name", None),
         type |-> Get(obj, "type", None),
         label |-> Get(obj, "label", None),
         description |-> Get(obj, "description", None),
         fields |-> m.core_fields,
         record_types |-> Get(obj, "record_types", <<>>),
         validation_rules |-> Get(obj, "validation_rules", <<>>)],
     related_relationships |-> GetRelationshipsForObject(obj_name),
     metadata |->
        [has_picklists |-> m.picklists /= EmptyDict,
         has_formulas |-> m.formulas /= EmptyDict]]

PicklistsData(obj_name, picklists) ==
    [picklists |-> picklists,
     metadata |-> [object |-> obj_name, picklist_count |-> Cardinality(DOMAIN picklists)]]

FormulasData(obj_name, formulas) ==
    [formulas |-> formulas,
     metadata |-> [object |-> obj_name, formula_count |-> Cardinality(DOMAIN formulas)]]

\* The paths of one object's partition.
FileKinds == {"folder", "schema.yaml", "picklists.yaml", "formulas.yaml"}

\* SplitFailPoint with the try around the loop: once an object has raised, no
\* later object gets its folder.
SplitFailPointAborting(obj_name, m) ==
    IF \E i \in 1..Len(splitLog) : splitLog[i] /= "none" THEN "mkdir"
    ELSE IF <<obj_name, "folder">> \in unwritable THEN "mkdir"
    ELSE IF <<obj_name, "schema.yaml">> \in unwritable THEN "schema"
    ELSE IF m.picklists /= EmptyDict /\ <<obj_name, "picklists.yaml">> \in unwritable
         THEN "picklists"
    ELSE IF m.formulas /= EmptyDict /\ <<obj_name, "formulas.yaml">> \in unwritable
         THEN "formulas"
    ELSE "none"

\* Where the body of the loop of split_objects raises for obj_name ("none":
\* nowhere): at the first path it has to create or open that is unwritable.
SplitFailPoint(obj_name, m) ==
    IF <<obj_name, "folder">> \in unwritable THEN "mkdir"
    ELSE IF <<obj_name, "schema.yaml">> \in unwritable THEN "schema"
    ELSE IF m.picklists /= EmptyDict /\ <<obj_name, "picklists.yaml">> \in unwritable
         THEN "picklists"
    ELSE IF m.formulas /= EmptyDict /\ <<obj_name, "formulas.yaml">> \in unwritable
         THEN "formulas"
    ELSE "none"

\* SplitPartition that leaves alone a file that is already there.
SplitPartitionKeepingExisting(old, obj, obj_name) ==
    LET m == ExtractFieldMetadata(Get(obj, "fields", <<>>), obj_name)
    IN  [folder |-> TRUE,
         schema |-> IF old.schema /= <<>> THEN old.schema
                    ELSE <<SchemaData(obj, obj_name, m)>>,
         picklists |-> IF old.picklists /= <<>> \/ m.picklists = EmptyDict THEN old.picklists
                       ELSE <<PicklistsData(obj_name, m.picklists)>>,
         formulas |-> IF old.formulas /= <<>> \/ m.formulas = EmptyDict THEN old.formulas
                      ELSE <<FormulasData(obj_name, m.formulas)>>,
         legacy |-> old.legacy]

\* The files of obj_name after one iteration of the loop of split_objects.
SplitPartition(old, obj, obj_name) ==
    LET m    == ExtractFieldMetadata(Get(obj, "fields", <<>>), obj_name)
        fail == SplitFailPoint(obj_name, m)
        wroteSchema    == fail \notin {"mkdir", "schema"}
        wrotePicklists == wroteSchema /\ m.picklists /= EmptyDict /\ fail /= "picklists"
        wroteFormulas  == wroteSchema /\ m.formulas /= EmptyDict /\ fail = "none"
    IN  [folder |-> old.folder \/ fail /= "mkdir",
         schema |-> IF wroteSchema THEN File(SchemaData(obj, obj_name, m)) ELSE old.schema,
         picklists |-> IF wrotePicklists
                       THEN File(PicklistsData(obj_name, m.picklists))
                       ELSE old.picklists,
         formulas |-> IF wroteFormulas
                      THEN File(FormulasData(obj_name, m.formulas))
                      ELSE old.formulas,
         legacy |-> old.legacy]

\* One iteration of the loop of split_objects, on objects[splitPos].
SplitObject ==
    /\ phase = "split"
    /\ splitPos <= Len(objects)
    /\ LET obj      == objects[splitPos]
           obj_name == Get(obj, "api_name", "Unknown")
           m        == ExtractFieldMetadata(Get(obj, "fields", <<>>), obj_name)
       IN  /\ disk' = Put(disk, obj_name, SplitPartition(Partition(disk, obj_name), obj, obj_name))
           /\ splitLog' = Append(splitLog, SplitFailPoint(obj_name, m))
           /\ objects' = IF Has(obj, "fields") /\ SplitFailPoint(obj_name, m) /= "mkdir"
                         THEN [objects EXCEPT
                                  ![splitPos] = Put(obj, "fields",
                                                    LoadedFields(obj["fields"], obj_name))]
                         ELSE objects
    /\ splitPos' = splitPos + 1
    /\ UNCHANGED <<relationships, unwritable, interrupts, phase>>
    /\ UNCHANGED <<index, searchIndex, categories>>
    /\ UNCHANGED enricherVars
    /\ UNCHANGED parserVars

\* split_objects returns True once the loop is over.
SplitReturn ==
    /\ phase = "split"
    /\ splitPos > Len(objects)
    /\ phase' = "split_done"
    /\ UNCHANGED <<objects, relationships, splitPos, splitLog, disk, unwritable, interrupts>>
    /\ UNCHANGED <<index, searchIndex, categories>>
    /\ UNCHANGED enricherVars
    /\ UNCHANGED parserVars

\* A path under the output directory is the tuple of its parts; where the
\* code puts None for a path the tuple is empty.
NoPath == <<>>

\* The object names the Splitter is run on, in the order of Python's string
\* comparison (sorted() of create_index).
NameOrder == <<"", "Account", "Asset", "Campaign", "Cfg__mdt", "HealthCloudGA__Plan__c",
               "Lead", "Log__e", "Opportunity", "Order__c", "Task">>

NameRank(name) == CHOOSE i \in 1..Len(NameOrder) : NameOrder[i] = name

\* SortedByName that keeps the order of the document.
SortedByNameAsLoaded(objs) == objs

\* sorted(objs, key=lambda x: x.get('api_name', '')): a stable sort, so an
\* object comes after those of a smaller name and those of the same name
\* that stand before it.
SortedByName(objs) ==
    LET n      == Len(objs)
        key(i) == NameRank(Get(objs[i], "api_name", ""))
        pos(i) == 1 + Cardinality({j \in 1..n :
                                      key(j) < key(i) \/ (key(j) = key(i) /\ j < i)})
    IN  [p \in 1..n |-> objs[CHOOSE i \in 1..n : pos(i) = p]]

\* key_fields of create_index: "<name> (<type>)" for the first ten fields
\* that have both.
KeyFields(fields) ==
    LET first == SubSeq(fields, 1, IF Len(fields) < 10 THEN Len(fields) ELSE 10)
        named == SelectSeq(first, LAMBDA f : Get(f, "api_name", "") /= ""
                                             /\ Get(f, "type", "") /= "")
    IN  [i \in 1..Len(named) |-> <<named[i]["api_name"], named[i]["type"]>>]

\* obj_entry of create_index.
IndexEntry(obj) ==
    LET obj_name      == Get(obj, "api_name", "")
        fields        == Get(obj, "fields", <<>>)
        has_picklists == \E i \in 1..Len(fields) : HasPicklistValues(fields[i])
        has_formulas  == \E i \in 1..Len(fields) : HasFormula(fields[i])
        key_fields    == KeyFields(fields)
    IN  [api_name |-> obj_name,
         label |-> Get(obj, "label", obj_name),
         type |-> Get(obj, "type", "Unknown"),
         folder |-> <<"objects", obj_name>>,
         files |->
            [schema |-> <<"objects", obj_name, "schema.yaml">>,
             picklists |-> IF has_picklists
                           THEN <<"objects", obj_name, "picklists.yaml">> ELSE NoPath,
             formulas |-> IF has_formulas
                          THEN <<"objects", obj_name, "formulas.yaml">> ELSE NoPath],
         field_count |-> Len(fields),
         has_picklists |-> has_picklists,
         has_formulas |-> has_formulas,
         has_record_types |-> Len(Get(obj, "record_types", <<>>)) > 0,
         has_validation_rules |-> Len(Get(obj, "validation_rules", <<>>)) > 0]
        @@ (IF key_fields /= <<>> THEN "sample_fields" :> key_fields ELSE EmptyDict)

\* index_data['schema_index'] of create_index (timestamps and fixed texts
\* left out).
IndexData(objs) ==
    LET sorted == SortedByName(objs)
    IN  [metadata |-> [total_objects |-> Len(objs)],
         objects |-> [i \in 1..Len(sorted) |-> IndexEntry(sorted[i])]]

\* create_index: writes _index.yaml; run() stops when it returns False.
CreateIndex ==
    /\ phase = "split_done"
    /\ IF <<"", "_index.yaml">> \in unwritable
       THEN /\ phase' = "run_failed"
            /\ UNCHANGED index
       ELSE /\ phase' = "index_done"
            /\ index' = File(IndexData(objects))
    /\ UNCHANGED <<objects, relationships, splitPos, splitLog, disk, unwritable, interrupts>>
    /\ UNCHANGED <<searchIndex, categories>>
    /\ UNCHANGED enricherVars
    /\ UNCHANGED parserVars

\* field_info of create_search_index.
SearchFieldInfo(field) ==
    [name |-> Get(field, "api_name", ""),
     type |-> Get(field, "type", ""),
     required |-> Get(field, "required", FALSE)]
    @@ (IF HasPicklistValues(field) THEN "has_picklist_values" :> TRUE ELSE EmptyDict)
    @@ (IF HasFormula(field) THEN "has_formula" :> TRUE ELSE EmptyDict)
    @@ (IF Has(field, "reference_to") THEN "reference_to" :> field["reference_to"]
        ELSE EmptyDict)
    @@ (IF Has(field, "length") THEN "length" :> field["length"] ELSE EmptyDict)

\* The entry create_search_index stores under obj_name.
SearchEntry(obj) ==
    LET obj_name      == Get(obj, "api_name", "")
        fields        == Get(obj, "fields", <<>>)
        has_picklists == \E i \in 1..Len(fields) : HasPicklistValues(fields[i])
        has_formulas  == \E i \in 1..Len(fields) : HasFormula(fields[i])
    IN  [type |-> Get(obj, "type", "Unknown"),
         label |-> Get(obj, "label", obj_name),
         folder |-> <<"objects", obj_name>>,
         files |->
            [schema |-> <<"objects", obj_name, "schema.yaml">>,
             picklists |-> IF has_picklists
                           THEN <<"objects", obj_name, "picklists.yaml">> ELSE NoPath,
             formulas |-> IF has_formulas
                          THEN <<"objects", obj_name, "formulas.yaml">> ELSE NoPath],
         fields |-> [i \in 1..Len(fields) |-> SearchFieldInfo(fields[i])]]

\* search_data['search_index']['objects'] of create_search_index: a dict
\* keyed by obj_name, where a later object of the same name replaces an
\* earlier one.
SearchData(objs) ==
    LET obj_name(i) == Get(objs[i], "api_name", "")
        entry(i)    == SearchEntry(objs[i])
    IN  Collected(1..Len(objs), obj_name, entry)

\* create_search_index: writes _search_index.yaml; run() stops when it
\* returns False.
CreateSearchIndex ==
    /\ phase = "index_done"
    /\ IF <<"", "_search_index.yaml">> \in unwritable
       THEN /\ phase' = "run_failed"
            /\ UNCHANGED searchIndex
       ELSE /\ phase' = "search_done"
            /\ searchIndex' = File(SearchData(objects))
    /\ UNCHANGED <<objects, relationships, splitPos, splitLog, disk, unwritable, interrupts>>
    /\ UNCHANGED <<index, categories>>
    /\ UNCHANGED enricherVars
    /\ UNCHANGED parserVars

\* The keys of SchemaOptimizer.CATEGORIES, in the order of the dict.
CategoryOrder ==
    <<"core", "sales", "service", "marketing", "activities", "healthcare", "custom", "other">>

\* SchemaOptimizer.CATEGORIES.
CATEGORIES ==
    [category \in {CategoryOrder[i] : i \in 1..Len(CategoryOrder)} |->
        CASE category = "core" ->
                {"Account", "Contact", "Lead", "User", "Group", "Profile"}
          [] category = "sales" ->
                {"Opportunity", "Quote", "Contract", "Order", "Product2", "PricebookEntry",
                 "OpportunityLineItem", "QuoteLineItem", "OrderItem"}
          [] category = "service" ->
                {"Case", "Solution", "Entitlement", "ServiceContract", "WorkOrder",
                 "WorkOrderLineItem", "ServiceAppointment"}
          [] category = "marketing" -> {"Campaign", "CampaignMember", "Lead"}
          [] category = "activities" -> {"Task", "Event", "EmailMessage"}
          [] OTHER -> {}]

\* str.startswith for the object names used.
StartsWith(obj_name, prefix) ==
    prefix = "HealthCloudGA__" /\ obj_name \in {"HealthCloudGA__Plan__c"}

\* str.endswith('__c') for the object names used.
IsCustomName(obj_name) == obj_name \in {"HealthCloudGA__Plan__c", "Order__c"}

\* Category that keeps the last list holding the name, and tests the suffix
\* before the prefix.
CategoryLastMatch(obj_name) ==
    LET listed == {i \in 1..Len(CategoryOrder) : obj_name \in CATEGORIES[CategoryOrder[i]]}
    IN  IF listed /= {}
        THEN CategoryOrder[CHOOSE i \in listed : \A j \in listed : i >= j]
        ELSE IF IsCustomName(obj_name) THEN "custom"
        ELSE IF StartsWith(obj_name, "HealthCloudGA__") THEN "healthcare"
        ELSE "other"

\* The category create_categorized_schemas files obj_name under: the first
\* key of CATEGORIES whose list holds the name (the loop breaks there), else
\* by prefix, else by suffix, else 'other'.
Category(obj_name) ==
    LET listed == {i \in 1..Len(CategoryOrder) : obj_name \in CATEGORIES[CategoryOrder[i]]}
    IN  IF listed /= {}
        THEN CategoryOrder[CHOOSE i \in listed : \A j \in listed : i <= j]
        ELSE IF StartsWith(obj_name, "HealthCloudGA__") THEN "healthcare"
        ELSE IF IsCustomName(obj_name) THEN "custom"
        ELSE "other"

\* Categorized without the break: an object goes to every list that holds
\* its name.
CategorizedEveryMatch(objs) ==
    LET matches(o) ==
            LET listed == {c \in DOMAIN CATEGORIES : Get(o, "api_name", "") \in CATEGORIES[c]}
            IN  IF listed /= {} THEN listed ELSE {Category(Get(o, "api_name", ""))}
    IN  [c \in UNION {matches(objs[i]) : i \in 1..Len(objs)} |->
            SelectSeq(objs, LAMBDA o : c \in matches(o))]

\* categorized of create_categorized_schemas: category -> the objects
\* appended to its list, in input order.
Categorized(objs) ==
    LET category(i) == Category(Get(objs[i], "api_name", ""))
    IN  [c \in {category(i) : i \in 1..Len(objs)} |->
            SelectSeq(objs, LAMBDA o : Category(Get(o, "api_name", "")) = c)]

\* category_data of create_categorized_schemas (timestamp and description
\* left out).
CategoryData(category, objects_list) ==
    [category |-> category,
     metadata |-> [object_count |-> Len(objects_list)],
     objects |-> objects_list]

\* create_categorized_schemas: one file per category that has objects; a
\* file that cannot be written is reported and the loop goes on.
CreateCategorizedSchemas ==
    /\ phase = "search_done"
    /\ LET categorized == Categorized(objects)
           written == {c \in DOMAIN categorized : <<"categories", c>> \notin unwritable}
       IN  categories' =
               [c \in (DOMAIN categories) \cup written |->
                   IF c \in written THEN File(CategoryData(c, categorized[c]))
                   ELSE categories[c]]
    /\ phase' = "categories_done"
    /\ UNCHANGED <<objects, relationships, splitPos, splitLog, disk, unwritable, interrupts>>
    /\ UNCHANGED <<index, searchIndex>>
    /\ UNCHANGED enricherVars
    /\ UNCHANGED parserVars

\* The documents the Splitter is run on: up to MaxObjects objects that hold
\* up to MaxFields fields between them.
FieldNames == {"F1", "F2"}

ObjNames == {"Account", "Lead"}

PicklistOptions == {EmptyDict, "picklist_values" :> <<>>, "picklist_values" :> <<"B", "A">>}

FormulaOptions == {EmptyDict, "formula" :> "X"}

SplitFields == {("api_name" :> n) @@ p @@ f :
                    n \in FieldNames, p \in PicklistOptions, f \in FormulaOptions}

RECURSIVE OwnedBy(_, _, _)
OwnedBy(flat, owner, i) ==
    IF flat = <<>> THEN <<>>
    ELSE LET n    == Len(flat)
             rest == OwnedBy(SubSeq(flat, 1, n - 1), SubSeq(owner, 1, n - 1), i)
         IN  IF owner[n] = i THEN Append(rest, flat[n]) ELSE rest

NonDecreasing(owner) ==
    \A a, b \in DOMAIN owner : a <= b => owner[a] <= owner[b]

\* doc is a document of up to MaxObjects objects named from `names`, holding
\* between them up to MaxFields fields of fieldSet.
IsDocument(doc, names, fieldSet) ==
    \E k \in 0..MaxObjects, flat \in SeqsUpTo(fieldSet, MaxFields) :
        \E nm \in [1..k -> names], owner \in [1..Len(flat) -> 1..k] :
            /\ NonDecreasing(owner)
            /\ doc = [i \in 1..k |->
                         ("api_name" :> nm[i]) @@ ("fields" :> OwnedBy(flat, owner, i))]

Unwritables == {{}} \cup {{<<"Lead", k>>} : k \in FileKinds}

SplitRelationships ==
    {<<>>,
     <<[from_object |-> "Account", from_field |-> "F1", to_object |-> "Lead",
        relationship_type |-> "Lookup", relationship_name |-> "", delete_constraint |-> ""]>>}

\* A field from which both picklist_values and formula are stripped.
FullField == [api_name |-> "F1", picklist_values |-> <<"B", "A">>, formula |-> "X"]

\* Names that fall under each rule of the categorisation: listed once,
\* listed twice ('Lead'), listed after 'core', by prefix, by suffix, by
\* neither.
CategoryNames == {"Account", "Lead", "Campaign", "Opportunity", "Task",
                  "HealthCloudGA__Plan__c", "Order__c", "Asset"}

\* The files outside objects/ that cannot be written.
RunUnwritables == {{<<"", "_index.yaml">>}, {<<"", "_search_index.yaml">>},
                   {<<"categories", "core">>}}

\* Either any document, split into a tree that can be written, or a document
\* of full fields with relationships, split into a tree where a path of one
\* object may not be writable.
SplitInit ==
    /\ \/ /\ IsDocument(objects, ObjNames, SplitFields)
          /\ relationships = <<>>
          /\ unwritable = {}
       \/ /\ IsDocument(objects, ObjNames, {FullField})
          /\ relationships \in SplitRelationships
          /\ unwritable \in Unwritables
    /\ splitPos = 1
    /\ splitLog = <<>>
    /\ interrupts = 0
    /\ disk = EmptyDict
    /\ index = NoFile
    /\ searchIndex = NoFile
    /\ categories = EmptyDict
    /\ EnricherIdle
    /\ ParserIdle
    /\ phase = "split"

SplitNext == SplitObject \/ SplitReturn

SpecSplit == SplitInit /\ [][SplitNext]_vars

\* run() from split_objects on.  Either a document of full fields with
\* relationships, split into a tree where a path of one object may not be
\* writable, or a document of objects of all categories, split into a tree
\* where an index or a category file may not be writable.
RunStart ==
    /\ splitPos = 1
    /\ splitLog = <<>>
    /\ interrupts = 0
    /\ disk = EmptyDict
    /\ index = NoFile
    /\ searchIndex = NoFile
    /\ categories = EmptyDict
    /\ EnricherIdle
    /\ ParserIdle
    /\ phase = "split"

RunInit ==
    /\ \/ /\ IsDocument(objects, ObjNames, {FullField})
          /\ relationships \in SplitRelationships
          /\ unwritable \in Unwritables
       \/ /\ objects \in SeqsUpTo({[api_name |-> n, fields |-> <<FullField>>] :
                                      n \in CategoryNames}, MaxObjects)
          /\ relationships = <<>>
          /\ unwritable \in {{}} \cup RunUnwritables
    /\ RunStart

RunNext ==
    \/ SplitObject
    \/ SplitReturn
    \/ CreateIndex
    \/ CreateSearchIndex
    \/ CreateCategorizedSchemas

SpecRun == RunInit /\ [][RunNext]_vars

\* A document of full fields with relationships, split into a tree where a
\* path of one object, an index or a category file may not be writable.
FaultInit ==
    /\ IsDocument(objects, ObjNames, {FullField})
    /\ relationships \in SplitRelationships
    /\ unwritable \in Unwritables \cup RunUnwritables
    /\ RunStart

\* run() is a sequential program: what it can do next, it does.
SpecRunFair == FaultInit /\ [][RunNext]_vars /\ WF_vars(RunNext)

-----------------------------------------------------------------------------
(* SchemaEnricher (the Enricher).                                          *)
(*                                                                         *)
(* A reference_to value is Str(name) for a Python str and List(names) for  *)
(* a Python list, so that the two can be told apart and compared.          *)

Str(s) == [str |-> s]

List(l) == [list |-> l]

\* The attributes _extract_non_picklist_formula_metadata can set.
BoolKeys == {"required", "unique", "external_id", "is_dependent_picklist"}

IntKeys == {"length", "precision", "scale"}

StrKeys == {"default_value", "controlling_field", "help_text", "label"}

ScalarKeys == BoolKeys \cup IntKeys \cup StrKeys \cup {"reference_to"}

\* Python truthiness of the value of attribute `key`.
Truthy(key, v) ==
    IF key \in BoolKeys THEN v
    ELSE IF key \in IntKeys THEN v /= 0
    ELSE IF key = "reference_to"
         THEN (IF Has(v, "str") THEN v["str"] /= "" ELSE v["list"] /= <<>>)
    ELSE v /= ""

\* dict.get(key) is truthy, for the external attribute `attr` of kind `key`.
GetTruthy(d, attr, key) == Has(d, attr) /\ Truthy(key, d[attr])

\* The outcome of `sf sobject describe` for an object that get_object_metadata
\* turns into None, with the error it records.
FetchErrors == {"timeout", "cli_error", "json_error", "status_error", "unexpected"}

\* get_object_metadata: <<the metadata or None, the errors recorded>>.  A
\* response [kind |-> "ok"] is a JSON document of status 0; its result may be
\* missing or empty.
GetObjectMetadata(object_name) ==
    LET response == org[object_name]
    IN  IF response.kind = "ok"
        THEN [metadata |-> File(Get(response, "result", EmptyDict)), errors |-> <<>>]
        ELSE [metadata |-> NoFile, errors |-> <<<<object_name, response.kind>>>>]

RECURSIVE ActiveValues(_)
ActiveValues(picklist_values) ==
    IF picklist_values = <<>> THEN <<>>
    ELSE LET pv   == Head(picklist_values)
             rest == ActiveValues(Tail(picklist_values))
         IN  IF Get(pv, "active", TRUE) THEN <<pv["value"]>> \o rest ELSE rest

\* extract_picklist_values: <<>> for None, <<values>> for a list.
ExtractPicklistValues(field_metadata) ==
    IF Get(field_metadata, "type", None) \notin {"picklist", "multipicklist"}
    THEN <<>>
    ELSE LET active_values == ActiveValues(Get(field_metadata, "picklistValues", <<>>))
         IN  IF active_values /= <<>> THEN <<active_values>> ELSE <<>>

\* _extract_non_picklist_formula_metadata.
ExtractNonPicklistFormulaMetadata(fm) ==
    LET copy(attr, key) ==
            IF GetTruthy(fm, attr, key) THEN key :> fm[attr] ELSE EmptyDict
        flag(attr, key) ==
            IF GetTruthy(fm, attr, key) THEN key :> TRUE ELSE EmptyDict
        reference_to == Get(fm, "referenceTo", <<>>)
    IN  copy("defaultValue", "default_value")
        @@ (IF Has(fm, "nillable") /\ fm["nillable"] = FALSE
            THEN "required" :> TRUE ELSE EmptyDict)
        @@ flag("unique", "unique")
        @@ flag("externalId", "external_id")
        @@ (IF Get(fm, "type", None) = "reference" /\ reference_to /= <<>>
            THEN "reference_to" :> (IF Len(reference_to) = 1
                                    THEN Str(reference_to[1])
                                    ELSE List(reference_to))
            ELSE EmptyDict)
        @@ copy("controllerName", "controlling_field")
        @@ flag("dependentPicklist", "is_dependent_picklist")
        @@ copy("length", "length")
        @@ copy("precision", "precision")
        @@ copy("scale", "scale")
        @@ copy("inlineHelpText", "help_text")
        @@ copy("label", "label")

\* MergeEnriched that overwrites what the field already holds.
MergeEnrichedOverwrite(field, enriched_data) ==
    [key \in (DOMAIN field) \cup (DOMAIN enriched_data) |->
        IF key \in DOMAIN enriched_data THEN enriched_data[key] ELSE field[key]]

\* The loop `for key, value in enriched_data.items()` of enrich_object_schema.
MergeEnriched(field, enriched_data) ==
    [key \in (DOMAIN field) \cup (DOMAIN enriched_data) |->
        IF key \in DOMAIN enriched_data
           /\ (key \notin DOMAIN field \/ ~Truthy(key, field[key]))
        THEN enriched_data[key]
        ELSE field[key]]

\* The keys that loop assigns (each adds one to enriched_count).
FilledKeys(field, enriched_data) ==
    {key \in DOMAIN enriched_data : key \notin DOMAIN field \/ ~Truthy(key, field[key])}

HasCalculatedFormula(org_field) ==
    /\ Has(org_field, "calculated") /\ org_field["calculated"]
    /\ Has(org_field, "calculatedFormula") /\ org_field["calculatedFormula"] /= ""

\* org_fields = {f['name']: f for f in org_metadata.get('fields', [])}
RECURSIVE OrgFields(_)
OrgFields(fields) ==
    IF fields = <<>> THEN EmptyDict
    ELSE LET n == Len(fields)
         IN  Put(OrgFields(SubSeq(fields, 1, n - 1)), fields[n]["name"], fields[n])

\* EnrichField that builds the field anew from what the org holds.
EnrichFieldFromOrg(field, org_fields, is_new_structure) ==
    LET field_name == Get(field, "api_name", None)
    IN  IF ~Has(org_fields, field_name) THEN field
        ELSE ("api_name" :> field_name)
             @@ ExtractNonPicklistFormulaMetadata(org_fields[field_name])

\* The body of the loop over the fields of the schema in enrich_object_schema:
\* the field as it is appended to enriched_fields.
EnrichField(field, org_fields, is_new_structure) ==
    LET field_name == Get(field, "api_name", None)
    IN  IF ~Has(org_fields, field_name) THEN field
        ELSE LET org_field == org_fields[field_name]
                 pv == ExtractPicklistValues(org_field)
                 f1 == IF pv /= <<>> /\ ~is_new_structure
                       THEN Put(field, "picklist_values", pv[1]) ELSE field
                 f2 == IF HasCalculatedFormula(org_field) /\ ~is_new_structure
                       THEN Put(f1, "formula", org_field["calculatedFormula"]) ELSE f1
             IN  MergeEnriched(f2, ExtractNonPicklistFormulaMetadata(org_field))

\* The loop over the fields of the schema in enrich_object_schema.
EnrichFields(fields, org_fields, is_new_structure) ==
    LET field_name(i) == Get(fields[i], "api_name", None)
        known == {i \in 1..Len(fields) : Has(org_fields, field_name(i))}
        org_field(i) == org_fields[field_name(i)]
        withP == {i \in known : ExtractPicklistValues(org_field(i)) /= <<>>}
        withF == {i \in known : HasCalculatedFormula(org_field(i))}
        pick(i) == ExtractPicklistValues(org_field(i))[1]
        form(i) == org_field(i)["calculatedFormula"]
        filled == {<<i, key>> \in known \X ScalarKeys :
                      key \in FilledKeys(fields[i],
                                         ExtractNonPicklistFormulaMetadata(org_field(i)))}
    IN  [enriched_fields |->
             [i \in 1..Len(fields) |-> EnrichField(fields[i], org_fields, is_new_structure)],
         picklists_data |-> Collected(withP, field_name, pick),
         formulas_data |-> Collected(withF, field_name, form),
         enriched_count |-> Cardinality(filled) + Cardinality(withP) + Cardinality(withF),
         picklists_added |-> Cardinality(withP),
         formulas_added |-> Cardinality(withF)]

\* EnrichWrite with has_picklists / has_formulas read off the files that are
\* there before the payloads are written.
EnrichWriteFlagsFromDisk(part, schema, r, object_name, is_new_structure) ==
    LET enriched == [schema EXCEPT !["object"] = Put(schema["object"], "fields", r.enriched_fields)]
        metadata == Put(Put(Get(enriched, "metadata", EmptyDict),
                            "has_picklists", Exists(part.picklists)),
                        "has_formulas", Exists(part.formulas))
    IN  IF is_new_structure
        THEN [part EXCEPT
                 !.schema = File(Put(enriched, "metadata", metadata)),
                 !.picklists =
                     IF r.picklists_data /= EmptyDict
                     THEN File([picklists |-> r.picklists_data,
                                metadata |-> [object |-> object_name,
                                              picklist_count |-> Cardinality(DOMAIN r.picklists_data),
                                              note |-> "Only ACTIVE picklist values are included"]])
                     ELSE @,
                 !.formulas =
                     IF r.formulas_data /= EmptyDict
                     THEN File([formulas |-> r.formulas_data,
                                metadata |-> [object |-> object_name,
                                              formula_count |-> Cardinality(DOMAIN r.formulas_data)]])
                     ELSE @]
        ELSE [part EXCEPT !.legacy = File(enriched)]

\* The writes of enrich_object_schema: the files of the object afterwards.
EnrichWrite(part, schema, r, object_name, is_new_structure) ==
    LET enriched == [schema EXCEPT !["object"] = Put(schema["object"], "fields", r.enriched_fields)]
        metadata == Put(Put(Get(enriched, "metadata", EmptyDict),
                            "has_picklists", r.picklists_data /= EmptyDict),
                        "has_formulas", r.formulas_data /= EmptyDict)
    IN  IF is_new_structure
        THEN [part EXCEPT
                 !.schema = File(Put(enriched, "metadata", metadata)),
                 !.picklists =
                     IF r.picklists_data /= EmptyDict
                     THEN File([picklists |-> r.picklists_data,
                                metadata |-> [object |-> object_name,
                                              picklist_count |-> Cardinality(DOMAIN r.picklists_data),
                                              note |-> "Only ACTIVE picklist values are included"]])
                     ELSE @,
                 !.formulas =
                     IF r.formulas_data /= EmptyDict
                     THEN File([formulas |-> r.formulas_data,
                                metadata |-> [object |-> object_name,
                                              formula_count |-> Cardinality(DOMAIN r.formulas_data)]])
                     ELSE @]
        ELSE [part EXCEPT !.legacy = File(enriched)]

\* A payload yaml.safe_load cannot load (malformed YAML, unreadable file).
Unloadable == [yaml_error |-> TRUE]

AddError(st, errs) == [st EXCEPT !.errors = @ \o errs]

\* ReturnsBeforeWrite that lets a dry run go on into the write section.
ReturnsBeforeWriteNever(dry_run) == FALSE

\* `if dry_run: ... return True`, ahead of the write section.
ReturnsBeforeWrite(dry_run) == dry_run

\* enrich_object_schema(object_name, dryRun): what it returns ("True",
\* "False", or "raise" when an exception leaves it), and the files of the
\* object and enrichment_stats afterwards.
EnrichObjectSchema(object_name) ==
    LET part == Partition(disk, object_name)
        is_new_structure == Exists(part.schema)
        fetched == GetObjectMetadata(object_name)
        org_metadata == fetched.metadata[1]
        schema == IF is_new_structure THEN part.schema[1] ELSE part.legacy[1]
        org_list == Get(org_metadata, "fields", <<>>)
        r == EnrichFields(Get(Get(schema, "object", EmptyDict), "fields", <<>>),
                          OrgFields(org_list), is_new_structure)
        counted == [stats EXCEPT
                       !.fields_enriched = @ + r.enriched_count,
                       !.picklists_added = @ + r.picklists_added,
                       !.formulas_added = @ + r.formulas_added]
    IN  IF ~Exists(part.schema) /\ ~Exists(part.legacy)
        THEN [ret |-> "False", part |-> part,
              stats |-> AddError(stats, <<<<object_name, "schema_not_found">>>>)]
        ELSE IF org[object_name].kind = "cli_not_found"
        THEN [ret |-> "raise", part |-> part, stats |-> stats]
        ELSE IF fetched.metadata = NoFile \/ org_metadata = EmptyDict
        THEN [ret |-> "False", part |-> part, stats |-> AddError(stats, fetched.errors)]
        ELSE IF \/ schema = Unloadable
                \/ \E i \in 1..Len(org_list) : ~Has(org_list[i], "name")
                \/ ~Has(schema, "object")
        THEN [ret |-> "raise", part |-> part, stats |-> stats]
        ELSE IF ReturnsBeforeWrite(dryRun)
        THEN [ret |-> "True", part |-> part, stats |-> counted]
        ELSE [ret |-> "True",
              part |-> EnrichWrite(part, schema, r, object_name, is_new_structure),
              stats |-> [counted EXCEPT
                  !.objects_processed = @ + 1,
                  !.picklist_files_created =
                      @ + (IF is_new_structure /\ r.picklists_data /= EmptyDict THEN 1 ELSE 0),
                  !.formula_files_created =
                      @ + (IF is_new_structure /\ r.formulas_data /= EmptyDict THEN 1 ELSE 0)]]

\* One iteration of the loop of enrich_all_objects whose call of
\* enrich_object_schema returns.
EnrichObject ==
    /\ phase = "enrich"
    /\ enrichPos <= Len(toProcess)
    /\ \E r \in {EnrichObjectSchema(toProcess[enrichPos])} :
           /\ r.ret /= "raise"
           /\ disk' = (IF r.part = Partition(disk, toProcess[enrichPos])
                       THEN disk ELSE Put(disk, toProcess[enrichPos], r.part))
           /\ stats' = r.stats
           /\ returns' = Append(returns, r.ret = "True")
    /\ enrichPos' = enrichPos + 1
    /\ UNCHANGED <<org, toProcess, dryRun, phase>>
    /\ UNCHANGED splitterVars
    /\ UNCHANGED parserVars

\* One iteration of the loop of enrich_all_objects whose call of
\* enrich_object_schema raises (or, the sf executable missing, exits):
\* nothing catches the exception, in enrich_all_objects or in main, and the
\* process ends there.
EnrichRaise ==
    /\ phase = "enrich"
    /\ enrichPos <= Len(toProcess)
    /\ EnrichObjectSchema(toProcess[enrichPos]).ret = "raise"
    /\ phase' = "enrich_crashed"
    /\ UNCHANGED <<disk, org, toProcess, dryRun, enrichPos, stats, returns>>
    /\ UNCHANGED splitterVars
    /\ UNCHANGED parserVars

\* The loop of enrich_all_objects is over: print_summary.
EnrichSummary ==
    /\ phase = "enrich"
    /\ enrichPos > Len(toProcess)
    /\ phase' = "enrich_summary"
    /\ UNCHANGED <<disk, org, toProcess, dryRun, enrichPos, stats, returns>>
    /\ UNCHANGED splitterVars
    /\ UNCHANGED parserVars

EnrichNext == EnrichObject \/ EnrichRaise \/ EnrichSummary

-----------------------------------------------------------------------------
(* The inputs of the Enricher: one object, enriched MaxCalls times in a     *)
(* row against the same org (SpecMerge).                                    *)

FieldName == <<"F1", "F2", "F3", "F4">>

PickOption(value, active) == ("value" :> value) @@ ("active" :> active)

\* picklistValues of the org: active, inactive and unflagged options.
OptionLists ==
    {<<>>,
     <<PickOption("A", TRUE), PickOption("B", FALSE)>>,
     <<PickOption("B", FALSE)>>,
     <<"value" :> "C", PickOption("A", TRUE)>>}

OrgPicklistParts ==
    {"type" :> "string"}
    \cup {("type" :> "picklist") @@ ("picklistValues" :> o) : o \in OptionLists}
    \cup {("type" :> "multipicklist")
          @@ ("picklistValues" :> <<PickOption("B", FALSE), PickOption("A", TRUE)>>)}

OrgFormulaParts ==
    {EmptyDict,
     ("calculated" :> TRUE) @@ ("calculatedFormula" :> "Y"),
     ("calculated" :> FALSE) @@ ("calculatedFormula" :> "Y")}

\* A field of the schema with what the org holds for it (<<>>: nothing),
\* varying in picklist values and formula.
PickCases ==
    {[existing |-> p @@ f, ext |-> e] :
        p \in {EmptyDict, "picklist_values" :> <<"B", "A">>},
        f \in FormulaOptions,
        e \in {<<>>} \cup {<<op @@ ofm>> : op \in OrgPicklistParts, ofm \in OrgFormulaParts}}

\* For attribute `key`: a falsy and a truthy value the schema may hold, and
\* what the org may report for it.
FalsyOf(key) ==
    IF key \in BoolKeys THEN FALSE
    ELSE IF key \in IntKeys THEN 0
    ELSE IF key = "reference_to" THEN Str("")
    ELSE ""

TruthyOf(key) ==
    IF key \in BoolKeys THEN TRUE
    ELSE IF key \in IntKeys THEN 18
    ELSE IF key = "reference_to" THEN Str("Account")
    ELSE "old"

\* The attribute of the describe result that feeds attribute `key`.
OrgAttr(key) ==
    CASE key = "default_value" -> "defaultValue"
      [] key = "required" -> "nillable"
      [] key = "unique" -> "unique"
      [] key = "external_id" -> "externalId"
      [] key = "reference_to" -> "referenceTo"
      [] key = "controlling_field" -> "controllerName"
      [] key = "is_dependent_picklist" -> "dependentPicklist"
      [] key = "length" -> "length"
      [] key = "precision" -> "precision"
      [] key = "scale" -> "scale"
      [] key = "help_text" -> "inlineHelpText"
      [] key = "label" -> "label"

OrgScalarParts(key) ==
    IF key = "reference_to"
    THEN {"type" :> "reference",
          ("type" :> "reference") @@ ("referenceTo" :> <<>>),
          ("type" :> "reference") @@ ("referenceTo" :> <<"Contact">>),
          ("type" :> "reference") @@ ("referenceTo" :> <<"Contact", "Lead">>),
          ("type" :> "string") @@ ("referenceTo" :> <<"Contact">>)}
    ELSE {"type" :> "string"}
         \cup {("type" :> "string") @@ (OrgAttr(key) :> v) :
                  v \in IF key \in BoolKeys THEN {FALSE, TRUE}
                        ELSE IF key \in IntKeys THEN {0, 80}
                        ELSE {"", "new"}}

ScalarCases(key) ==
    {[existing |-> x, ext |-> e] :
        x \in {EmptyDict, key :> FalsyOf(key), key :> TruthyOf(key)},
        e \in {<<>>} \cup {<<o>> : o \in OrgScalarParts(key)}}

\* The cases the fields after the first are drawn from.
PickCompanions ==
    {[existing |-> EmptyDict, ext |-> <<>>],
     [existing |-> "picklist_values" :> <<"B", "A">>,
      ext |-> <<("type" :> "picklist")
                @@ ("picklistValues" :> <<PickOption("A", TRUE), PickOption("B", FALSE)>>)>>],
     [existing |-> EmptyDict,
      ext |-> <<("type" :> "string") @@ ("calculated" :> TRUE)
                @@ ("calculatedFormula" :> "Y")>>]}

\* A record of the org whose value for `key` the Enricher takes over.
AdoptedPart(key) ==
    IF key = "reference_to"
    THEN ("type" :> "reference") @@ ("referenceTo" :> <<"Contact">>)
    ELSE ("type" :> "string")
         @@ (OrgAttr(key) :> (IF key = "required" THEN FALSE
                              ELSE IF key \in BoolKeys THEN TRUE
                              ELSE IF key \in IntKeys THEN 80
                              ELSE "new"))

ScalarCompanions(key) ==
    {[existing |-> x, ext |-> <<AdoptedPart(key)>>] :
        x \in {EmptyDict, key :> TruthyOf(key)}}

\* The fields of an object: the first from `cases`, the others from
\* `companions`.
CaseLists(cases, companions) ==
    {<<>>} \cup {<<c>> \o others :
                    c \in cases, others \in SeqsUpTo(companions, MaxFields - 1)}

RECURSIVE OrgRecords(_)
OrgRecords(cases) ==
    IF cases = <<>> THEN <<>>
    ELSE LET n    == Len(cases)
             rest == OrgRecords(SubSeq(cases, 1, n - 1))
         IN  IF cases[n].ext = <<>> THEN rest
             ELSE Append(rest, ("name" :> FieldName[n]) @@ cases[n].ext[1])

CaseObject(obj_name, cases) ==
    ("api_name" :> obj_name)
    @@ ("fields" :> [i \in 1..Len(cases) |-> ("api_name" :> FieldName[i]) @@ cases[i].existing])

\* What the splitter of the legacy layout leaves for an object: the single
\* file objects/<name>.yaml holding the whole object.
LegacyPartition(obj) ==
    [NoPartition EXCEPT !.legacy = File([object |-> obj, metadata |-> EmptyDict])]

LayoutPartition(layout, obj) ==
    IF layout = "folder"
    THEN SplitPartition(NoPartition, obj, ObjName(obj))
    ELSE LegacyPartition(obj)

OkResponse(records) == [kind |-> "ok", result |-> ("fields" :> records)]

\* Payloads and responses enrich_object_schema cannot digest.
BrokenInputs ==
    {[part |-> [NoPartition EXCEPT !.folder = TRUE, !.schema = File(Unloadable)],
      response |-> OkResponse(<<>>)],
     [part |-> [NoPartition EXCEPT !.legacy = File([metadata |-> EmptyDict])],
      response |-> OkResponse(<<>>)],
     [part |-> LegacyPartition(CaseObject("Account", <<>>)),
      response |-> OkResponse(<<"type" :> "string">>)]}

MergeInit ==
    /\ SplitterIdle
    /\ ParserIdle
    /\ toProcess = [i \in 1..MaxCalls |-> "Account"]
    /\ dryRun \in BOOLEAN
    /\ enrichPos = 1
    /\ stats = NoStats
    /\ returns = <<>>
    /\ phase = "enrich"
    /\ \/ \E layout \in {"folder", "legacy"} :
            \E cases \in CaseLists(PickCases, PickCompanions) :
                /\ disk = "Account" :> LayoutPartition(layout, CaseObject("Account", cases))
                /\ org = "Account" :> OkResponse(OrgRecords(cases))
       \/ \E layout \in {"folder", "legacy"}, key \in ScalarKeys :
            \E cases \in CaseLists(ScalarCases(key), ScalarCompanions(key)) :
                /\ disk = "Account" :> LayoutPartition(layout, CaseObject("Account", cases))
                /\ org = "Account" :> OkResponse(OrgRecords(cases))
       \/ \E b \in BrokenInputs :
                /\ disk = "Account" :> b.part
                /\ org = "Account" :> b.response

SpecMerge == MergeInit /\ [][EnrichNext]_vars

-----------------------------------------------------------------------------
(* Inputs of SpecEnrich: enrich_all_objects over a list of objects, each   *)
(* with a schema payload and a describe response of one of the kinds the   *)
(* code distinguishes.                                                      *)

RunObject(obj_name) == CaseObject(obj_name, <<[existing |-> EmptyDict, ext |-> <<>>]>>)

\* What may lie in the schema directory for an object.
RunPartitions(obj_name) ==
    {NoPartition,
     LayoutPartition("folder", RunObject(obj_name)),
     LayoutPartition("legacy", RunObject(obj_name)),
     [NoPartition EXCEPT !.folder = TRUE, !.schema = File(Unloadable)],
     [NoPartition EXCEPT !.legacy = File([metadata |-> EmptyDict])]}

\* What `sf sobject describe` may answer for an object.
RunResponses ==
    {[kind |-> k] : k \in FetchErrors \cup {"cli_not_found"}}
    \cup {[kind |-> "ok"],
          [kind |-> "ok", result |-> EmptyDict],
          OkResponse(<<"type" :> "string">>),
          OkResponse(<<[name |-> FieldName[1], type |-> "picklist",
                        picklistValues |-> <<[value |-> "A", active |-> TRUE]>>]>>)}

EnrichInit ==
    /\ SplitterIdle
    /\ ParserIdle
    /\ toProcess \in SeqsUpTo(ObjNames, MaxCalls)
    /\ dryRun \in BOOLEAN
    /\ enrichPos = 1
    /\ stats = NoStats
    /\ returns = <<>>
    /\ phase = "enrich"
    /\ \E parts \in [ObjNames -> UNION {RunPartitions(n) : n \in ObjNames}] :
          /\ \A n \in ObjNames : parts[n] \in RunPartitions(n)
          /\ disk = parts
    /\ org \in [ObjNames -> RunResponses]

SpecEnrich == EnrichInit /\ [][EnrichNext]_vars

-----------------------------------------------------------------------------
(* SalesforceSchemaParser (src/scripts/generate_sf_er_schema.py).          *)
(*                                                                         *)
(* tree is objects_path: [kind |-> "missing" | "file" | "unlistable"], or  *)
(* [kind |-> "dir", dirs |-> name :> directory].  An object directory is   *)
(* [access, meta, fields]: access "denied" is a directory that cannot be   *)
(* searched; meta is <name>.object-meta.xml (no file, or one document);    *)
(* fields maps the stem of each fields/*.field-meta.xml to its document.   *)
(* A document is [kind |-> "malformed"] (not well-formed XML),             *)
(* [kind |-> "unreadable"], or [kind |-> "xml", elems, values, raises]:    *)
(* elems maps an element name to the texts of its occurrences outside      *)
(* valueSet, in document order; values are the texts of the fullName       *)
(* elements under valueSet, which come after the fullName of the field     *)
(* itself; raises says that reading the elements raises.  recordTypes and  *)
(* validationRules map the stems of the documents of these directories to  *)
(* documents of the same shape; a directory that does not exist and one    *)
(* that holds no document are both the empty dict.                         *)

\* The names and stems used, in the order sorted() puts them.
PathOrder == <<"Account", "Cfg__mdt", "F1", "F2", "F3", "F4", "Log__e", "Order__c">>

PathRank(name) == CHOOSE i \in 1..Len(PathOrder) : PathOrder[i] = name

\* Sorted that keeps the paths as the directory listing happens to return
\* them, here from the last name to the first.
SortedAsListed(names) ==
    CHOOSE s \in [1..Cardinality(names) -> names] :
        \A i, j \in 1..Cardinality(names) : i < j => PathRank(s[i]) > PathRank(s[j])

\* sorted(paths) for paths of one directory.
Sorted(names) ==
    CHOOSE s \in [1..Cardinality(names) -> names] :
        \A i, j \in 1..Cardinality(names) : i < j => PathRank(s[i]) < PathRank(s[j])

\* str.endswith for the object names used.
EndsWith(obj_name, suffix) ==
    \/ suffix = "__c"   /\ obj_name \in {"Order__c"}
    \/ suffix = "__mdt" /\ obj_name \in {"Cfg__mdt"}
    \/ suffix = "__e"   /\ obj_name \in {"Log__e"}

\* str.lower for the texts of boolean elements used.
Lower(text) == IF text \in {"true", "True", "TRUE"} THEN "true"
               ELSE IF text \in {"false", "False", "FALSE"} THEN "false"
               ELSE text

\* IntOf that falls back on 0 where int() raises.
IntOfOrZero(text) ==
    IF text = "18" THEN <<18>>
    ELSE IF text = "255" THEN <<255>>
    ELSE <<0>>

\* int(text): <<n>>, or <<>> when it raises ValueError.
IntOf(text) ==
    IF text = "0" THEN <<0>>
    ELSE IF text = "18" THEN <<18>>
    ELSE IF text = "255" THEN <<255>>
    ELSE <<>>

\* `elem = root.find(name); elem is not None and elem.text`
HasText(elems, name) == Has(elems, name) /\ elems[name] /= <<>> /\ elems[name][1] /= ""

\* Text that reads the last occurrence.
TextOfLast(elems, name) == elems[name][Len(elems[name])]

\* root.find(name).text: the text of the first occurrence.
Text(elems, name) == elems[name][1]

\* FieldRelationship that points back to the parent object.
FieldRelationshipToParent(field_data, field_name, parent_object) ==
    [from_object |-> parent_object,
     from_field |-> field_name,
     to_object |-> parent_object,
     relationship_type |-> field_data["type"],
     relationship_name |-> Get(field_data, "relationship_name", ""),
     delete_constraint |-> Get(field_data, "delete_constraint", "")]

\* The relationship parse_field appends for a Lookup or MasterDetail field.
FieldRelationship(field_data, field_name, parent_object) ==
    [from_object |-> parent_object,
     from_field |-> field_name,
     to_object |-> field_data["reference_to"],
     relationship_type |-> field_data["type"],
     relationship_name |-> Get(field_data, "relationship_name", ""),
     delete_constraint |-> Get(field_data, "delete_constraint", "")]

\* IsPicklistType that takes every type for a picklist.
IsPicklistTypeAny(type) == TRUE

\* `field_data.get('type') in ['Picklist', 'MultiselectPicklist']`
IsPicklistType(type) == type \in {"Picklist", "MultiselectPicklist"}

\* parse_field: [field |-> <<>> for None or <<field_data>>, relationships |->
\* what it appends to schema['relationships']].
ParseField(doc, stem, parent_object) ==
    IF doc.kind /= "xml"
    THEN [field |-> <<>>, relationships |-> <<>>]
    ELSE IF doc.raises
    THEN [field |-> <<[api_name |-> stem, parse_error |-> "error"]>>,
          relationships |-> <<>>]
    ELSE
    LET e == doc.elems
        full_names == Get(e, "fullName", <<>>) \o doc.values
        field_name == IF full_names /= <<>> /\ full_names[1] /= ""
                      THEN full_names[1] ELSE stem
        text(name, key) == IF HasText(e, name) THEN key :> Text(e, name) ELSE EmptyDict
        bool(name, key) == IF HasText(e, name)
                           THEN key :> (Lower(Text(e, name)) = "true") ELSE EmptyDict
        int(name, key)  == IF HasText(e, name) /\ IntOf(Text(e, name)) /= <<>>
                           THEN key :> IntOf(Text(e, name))[1] ELSE EmptyDict
        basic == ("api_name" :> field_name)
                 @@ text("label", "label") @@ text("type", "type")
                 @@ text("description", "description")
                 @@ text("inlineHelpText", "help_text")
                 @@ bool("required", "required") @@ bool("unique", "unique")
                 @@ bool("externalId", "external_id")
                 @@ int("length", "length") @@ int("precision", "precision")
                 @@ int("scale", "scale")
        is_relationship == Get(basic, "type", None) \in {"Lookup", "MasterDetail"}
        related == IF is_relationship
                   THEN basic @@ text("referenceTo", "reference_to")
                        @@ text("relationshipName", "relationship_name")
                        @@ text("relationshipLabel", "relationship_label")
                        @@ text("deleteConstraint", "delete_constraint")
                   ELSE basic
        picklist_values == SelectSeq(doc.values, LAMBDA v : v /= "")
        picked == IF /\ IsPicklistType(Get(basic, "type", None))
                     /\ picklist_values /= <<>>
                  THEN related @@ ("picklist_values" :> picklist_values)
                  ELSE related
        field_data == picked @@ text("formula", "formula")
                      @@ text("defaultValue", "default_value")
    IN  [field |-> <<field_data>>,
         relationships |-> IF is_relationship /\ Has(related, "reference_to")
                           THEN <<FieldRelationship(related, field_name, parent_object)>>
                           ELSE <<>>]

\* The object type parse_object derives from the suffix of the name.
ObjectType(obj_name) ==
    IF ~EndsWith(obj_name, "__c") /\ ~EndsWith(obj_name, "__mdt") /\ ~EndsWith(obj_name, "__e")
    THEN "Standard"
    ELSE IF EndsWith(obj_name, "__mdt") THEN "CustomMetadata"
    ELSE IF EndsWith(obj_name, "__e") THEN "PlatformEvent"
    ELSE "Custom"

\* What parse_object takes from <name>.object-meta.xml.
ObjectMeta(meta, obj_name) ==
    IF meta = NoFile \/ meta[1].kind /= "xml"
    THEN "label" :> obj_name
    ELSE ("label" :> (IF HasText(meta[1].elems, "label")
                      THEN Text(meta[1].elems, "label") ELSE obj_name))
         @@ (IF HasText(meta[1].elems, "description")
             THEN "description" :> Text(meta[1].elems, "description") ELSE EmptyDict)

RECURSIVE Flatten(_)
Flatten(seqs) == IF seqs = <<>> THEN <<>> ELSE Head(seqs) \o Flatten(Tail(seqs))

\* parse_record_type: <<>> for None, or <<rt_data>>.
ParseRecordType(doc, stem) ==
    IF doc.kind /= "xml"
    THEN <<>>
    ELSE IF doc.raises
    THEN <<[api_name |-> stem, parse_error |-> "error"]>>
    ELSE
    LET e == doc.elems
        full_names == Get(e, "fullName", <<>>) \o doc.values
        text(name, key) == IF HasText(e, name) THEN key :> Text(e, name) ELSE EmptyDict
        bool(name, key) == IF HasText(e, name)
                           THEN key :> (Lower(Text(e, name)) = "true") ELSE EmptyDict
    IN  <<("api_name" :> (IF full_names /= <<>> /\ full_names[1] /= ""
                          THEN full_names[1] ELSE stem))
          @@ text("label", "label") @@ text("description", "description")
          @@ bool("active", "active")>>

\* parse_validation_rule: <<>> for None, or <<vr_data>>.
ParseValidationRule(doc, stem) ==
    IF doc.kind /= "xml"
    THEN <<>>
    ELSE IF doc.raises
    THEN <<[name |-> stem, parse_error |-> "error"]>>
    ELSE
    LET e == doc.elems
        full_names == Get(e, "fullName", <<>>) \o doc.values
        text(name, key) == IF HasText(e, name) THEN key :> Text(e, name) ELSE EmptyDict
        bool(name, key) == IF HasText(e, name)
                           THEN key :> (Lower(Text(e, name)) = "true") ELSE EmptyDict
    IN  <<("name" :> (IF full_names /= <<>> /\ full_names[1] /= ""
                      THEN full_names[1] ELSE stem))
          @@ bool("active", "active") @@ text("description", "description")
          @@ text("errorConditionFormula", "error_condition_formula")
          @@ text("errorDisplayField", "error_display_field")
          @@ text("errorMessage", "error_message")>>

\* parse_object on a directory it can read: [obj_data |-> the object,
\* relationships |-> what its fields append to schema['relationships']].  A
\* field document for which parse_field returns None adds nothing.
ParseObject(dir, obj_name) ==
    LET stems  == Sorted(DOMAIN dir.fields)
        parsed == [i \in 1..Len(stems) |->
                      ParseField(dir.fields[stems[i]], stems[i], obj_name)]
        rts    == Sorted(DOMAIN dir.recordTypes)
        vrs    == Sorted(DOMAIN dir.validationRules)
    IN  [obj_data |->
             [api_name |-> obj_name,
              type |-> ObjectType(obj_name),
              fields |-> Flatten([i \in 1..Len(stems) |-> parsed[i].field]),
              record_types |->
                  Flatten([i \in 1..Len(rts) |->
                              ParseRecordType(dir.recordTypes[rts[i]], rts[i])]),
              validation_rules |->
                  Flatten([i \in 1..Len(vrs) |->
                              ParseValidationRule(dir.validationRules[vrs[i]], vrs[i])])]
             @@ ObjectMeta(dir.meta, obj_name),
         relationships |-> Flatten([i \in 1..Len(stems) |-> parsed[i].relationships])]

\* A directory that cannot be searched, as parse_object sees it when
\* Path.exists() answers False for what is inside.
SeenEmpty == [access |-> "denied", meta |-> NoFile, fields |-> EmptyDict,
              recordTypes |-> EmptyDict, validationRules |-> EmptyDict]

ObjectDirs == IF tree.kind = "dir" THEN Sorted(DOMAIN tree.dirs) ELSE <<>>

\* ParseAllResult that reports failure when an object failed.
ParseAllResultStrict(log) ==
    IF \A i \in 1..Len(log) : log[i] = "ok" THEN "True" ELSE "False"

\* What parse_all_objects returns once the loop over the directories is over.
ParseAllResult(log) == "True"

\* One iteration of the loop of parse_all_objects.  On a directory that
\* cannot be searched, Path.exists() raises PermissionError or answers False,
\* depending on the Python version; parse_all_objects catches what
\* parse_object raises.
ParseOneObject ==
    /\ phase = "parse"
    /\ tree.kind = "dir"
    /\ parsePos <= Len(ObjectDirs)
    /\ LET obj_name == ObjectDirs[parsePos]
           dir      == tree.dirs[obj_name]
       IN  \E raised \in (IF dir.access = "denied" THEN BOOLEAN ELSE {FALSE}) :
              IF raised
              THEN /\ parseLog' = Append(parseLog, "failed")
                   /\ UNCHANGED parserSchema
              ELSE \E r \in {ParseObject(IF dir.access = "denied" THEN SeenEmpty ELSE dir,
                                         obj_name)} :
                     /\ parseLog' = Append(parseLog, "ok")
                     /\ parserSchema' =
                            [parserSchema EXCEPT
                                !.objects = Append(@, r.obj_data),
                                !.relationships = @ \o r.relationships]
    /\ parsePos' = parsePos + 1
    /\ UNCHANGED <<tree, parseRet, disk, phase>>
    /\ UNCHANGED splitterVars
    /\ UNCHANGED enricherVars

\* parse_all_objects returns True: there is no object directory, or the loop
\* is over and total_objects is set.
ParseReturn ==
    /\ phase = "parse"
    /\ tree.kind = "dir"
    /\ parsePos > Len(ObjectDirs)
    /\ parserSchema' = IF ObjectDirs = <<>> THEN parserSchema
                       ELSE [parserSchema EXCEPT !.total_objects = Len(parserSchema.objects)]
    /\ parseRet' = ParseAllResult(parseLog)
    /\ phase' = "parse_done"
    /\ UNCHANGED <<tree, parsePos, parseLog, disk>>
    /\ UNCHANGED splitterVars
    /\ UNCHANGED enricherVars

\* parse_all_objects returns False: objects_path does not exist, is not a
\* directory, or cannot be listed.
ParseNoDirectory ==
    /\ phase = "parse"
    /\ tree.kind /= "dir"
    /\ parseRet' = "False"
    /\ phase' = "parse_done"
    /\ UNCHANGED <<tree, parserSchema, parsePos, parseLog, disk>>
    /\ UNCHANGED splitterVars
    /\ UNCHANGED enricherVars

ParseNext == ParseOneObject \/ ParseReturn \/ ParseNoDirectory

-----------------------------------------------------------------------------
(* Inputs of SpecParse: a tree of at most MaxDirs object directories, each *)
(* holding a field document or none, or a tree of one object directory     *)
(* holding at most MaxDocs field documents, or at most MaxDocs record      *)
(* types and MaxDocs validation rules beside a directory of two fields.    *)

ParserObjNames == {"Account", "Cfg__mdt", "Log__e", "Order__c"}

\* A well-formed document in which every element of `elems` occurs once.
XmlDoc(elems, values) ==
    [kind |-> "xml", elems |-> [name \in DOMAIN elems |-> <<elems[name]>>],
     values |-> values, raises |-> FALSE]

FieldDocs ==
    {[kind |-> "malformed"],
     [kind |-> "unreadable"],
     [kind |-> "xml", elems |-> EmptyDict, values |-> <<>>, raises |-> TRUE],
     XmlDoc(EmptyDict, <<>>),
     XmlDoc([fullName |-> "Name", type |-> "Text", length |-> "255", required |-> "TRUE"], <<>>),
     XmlDoc([fullName |-> "Code__c", type |-> "Text", length |-> "abc", label |-> "",
             precision |-> "18"], <<>>),
     XmlDoc([fullName |-> "Owner__c", type |-> "Lookup", referenceTo |-> "Account",
             relationshipName |-> "Owners"], <<>>),
     XmlDoc([fullName |-> "Stage__c", type |-> "Picklist"], <<"A", "", "B">>),
     XmlDoc([fullName |-> "Tags__c", type |-> "MultiselectPicklist"], <<"X">>),
     XmlDoc([fullName |-> "Kind__c", type |-> "Text"], <<"A">>),
     XmlDoc([fullName |-> "Parent__c", type |-> "MasterDetail"], <<>>),
     XmlDoc([fullName |-> "Ref__c", type |-> "Text", referenceTo |-> "Account"], <<>>),
     [kind |-> "xml", values |-> <<>>, raises |-> FALSE,
      elems |-> [fullName |-> <<"Who__c">>, type |-> <<"MasterDetail">>,
                 referenceTo |-> <<"Contact", "Lead">>, deleteConstraint |-> <<"Cascade">>]],
     [kind |-> "xml", values |-> <<>>, raises |-> FALSE,
      elems |-> [fullName |-> <<"What__c">>, type |-> <<"Lookup">>,
                 referenceTo |-> <<"", "Lead">>]]}

MetaDocs == {NoFile, File([kind |-> "malformed"]),
             File(XmlDoc([label |-> "Label"], <<>>))}

\* The directory holding the documents docs[1], docs[2], ...
ObjectDir(meta, docs) ==
    [access |-> "ok", meta |-> meta,
     fields |-> [stem \in {FieldName[i] : i \in 1..Len(docs)} |->
                    docs[CHOOSE i \in 1..Len(docs) : FieldName[i] = stem]],
     recordTypes |-> EmptyDict, validationRules |-> EmptyDict]

\* Documents of the recordTypes and validationRules directories.
RuleDocs ==
    {[kind |-> "malformed"],
     XmlDoc(EmptyDict, <<>>),
     XmlDoc([fullName |-> "Zeta", active |-> "true", errorMessage |-> "No"], <<>>)}

\* A directory of one field document, with the record types rts[1], rts[2],
\* ... and the validation rules vrs[1], vrs[2], ...
RuleDir(rts, vrs) ==
    [ObjectDir(NoFile, <<XmlDoc([fullName |-> "Name", type |-> "Text"], <<>>)>>)
        EXCEPT !.recordTypes = [stem \in {FieldName[i] : i \in 1..Len(rts)} |->
                    rts[CHOOSE i \in 1..Len(rts) : FieldName[i] = stem]],
               !.validationRules = [stem \in {FieldName[i] : i \in 1..Len(vrs)} |->
                    vrs[CHOOSE i \in 1..Len(vrs) : FieldName[i] = stem]]]

\* What cannot be searched holds nothing the parser could see.
SmallDirs ==
    {SeenEmpty, ObjectDir(NoFile, <<>>)}
    \cup {ObjectDir(NoFile, <<doc>>) :
             doc \in {[kind |-> "malformed"],
                      XmlDoc(EmptyDict, <<>>),
                      XmlDoc([fullName |-> "Owner__c", type |-> "Lookup",
                              referenceTo |-> "Account"], <<>>)}}

ParseInit ==
    /\ SplitterIdle
    /\ EnricherIdle
    /\ disk = EmptyDict
    /\ parserSchema = [objects |-> <<>>, relationships |-> <<>>, total_objects |-> 0]
    /\ parsePos = 1
    /\ parseLog = <<>>
    /\ parseRet = "None"
    /\ phase = "parse"
    /\ \/ tree \in {[kind |-> k] : k \in {"missing", "file", "unlistable"}}
       \/ \E names \in SUBSET ParserObjNames :
             /\ Cardinality(names) <= MaxDirs
             /\ \E dirs \in [names -> SmallDirs] :
                   tree = [kind |-> "dir", dirs |-> dirs]
       \/ \E obj_name \in ParserObjNames, meta \in MetaDocs,
             docs \in SeqsUpTo(FieldDocs, MaxDocs) :
                tree = [kind |-> "dir", dirs |-> obj_name :> ObjectDir(meta, docs)]
       \/ \E rts \in SeqsUpTo(RuleDocs, MaxDocs), vrs \in SeqsUpTo(RuleDocs, MaxDocs) :
                tree = [kind |-> "dir",
                        dirs |-> ("Order__c" :> RuleDir(rts, vrs))
                                 @@ ("Account" :> ObjectDir(NoFile,
                                        <<XmlDoc([fullName |-> "Zip", type |-> "Text"], <<>>),
                                          XmlDoc([fullName |-> "Age", type |-> "Number"], <<>>)>>))]

SpecParse == ParseInit /\ [][ParseNext]_vars

-----------------------------------------------------------------------------
(* The Parser followed by the Splitter.                                    *)

\* save_yaml dumps schema as it is, and load_schema of the Splitter reads
\* objects and relationships back from under 'salesforce_schema'; main() of
\* the Parser saves only when parse_all_objects returned True.
LoadSchema ==
    /\ phase = "parse_done"
    /\ parseRet = "True"
    /\ objects' = parserSchema.objects
    /\ relationships' = parserSchema.relationships
    /\ phase' = "split"
    /\ UNCHANGED <<splitPos, splitLog, disk, unwritable, interrupts, index, searchIndex,
                   categories>>
    /\ UNCHANGED enricherVars
    /\ UNCHANGED parserVars

PipelineNext == ParseNext \/ LoadSchema \/ RunNext

SpecPipeline == ParseInit /\ [][PipelineNext]_vars

-----------------------------------------------------------------------------
(* AutoSchemaGenerator: the Parser followed by the splitter that stands    *)
(* next to it, src/scripts/split_schema_by_object.py, which writes one     *)
(* file per object.                                                        *)

\* split_schema runs the script split_schema_by_object.py of its own
\* directory once generate_schema has succeeded; the script loads what
\* save_yaml wrote.
SplitSchema ==
    /\ phase = "parse_done"
    /\ parseRet = "True"
    /\ objects' = parserSchema.objects
    /\ relationships' = parserSchema.relationships
    /\ phase' = "legacy_split"
    /\ UNCHANGED <<splitPos, splitLog, disk, unwritable, interrupts, index, searchIndex,
                   categories>>
    /\ UNCHANGED enricherVars
    /\ UNCHANGED parserVars

\* obj_data of split_objects of that script (timestamps and source path
\* left out).
LegacyObjData(obj, obj_name) ==
    [object |-> obj,
     related_relationships |-> GetRelationshipsForObject(obj_name),
     metadata |-> EmptyDict]

\* One iteration of the loop of its split_objects, on objects[splitPos].
LegacySplitObject ==
    /\ phase = "legacy_split"
    /\ splitPos <= Len(objects)
    /\ LET obj      == objects[splitPos]
           obj_name == Get(obj, "api_name", "Unknown")
       IN  IF <<obj_name, "file">> \in unwritable
           THEN /\ splitLog' = Append(splitLog, "file")
                /\ UNCHANGED disk
           ELSE /\ splitLog' = Append(splitLog, "none")
                /\ disk' = Put(disk, obj_name,
                               [Partition(disk, obj_name) EXCEPT
                                   !.legacy = File(LegacyObjData(obj, obj_name))])
    /\ splitPos' = splitPos + 1
    /\ UNCHANGED <<objects, relationships, unwritable, interrupts, phase>>
    /\ UNCHANGED <<index, searchIndex, categories>>
    /\ UNCHANGED enricherVars
    /\ UNCHANGED parserVars

\* Its split_objects returns True once the loop is over.
LegacySplitReturn ==
    /\ phase = "legacy_split"
    /\ splitPos > Len(objects)
    /\ phase' = "legacy_split_done"
    /\ UNCHANGED <<objects, relationships, splitPos, splitLog, disk, unwritable, interrupts>>
    /\ UNCHANGED <<index, searchIndex, categories>>
    /\ UNCHANGED enricherVars
    /\ UNCHANGED parserVars

\* obj_entry of its create_index.
LegacyIndexEntry(obj) ==
    LET obj_name   == Get(obj, "api_name", "")
        fields     == Get(obj, "fields", <<>>)
        key_fields == KeyFields(fields)
    IN  [api_name |-> obj_name,
         label |-> Get(obj, "label", obj_name),
         type |-> Get(obj, "type", "Unknown"),
         file |-> <<"objects", obj_name>>,
         field_count |-> Len(fields),
         has_record_types |-> Len(Get(obj, "record_types", <<>>)) > 0,
         has_validation_rules |-> Len(Get(obj, "validation_rules", <<>>)) > 0]
        @@ (IF key_fields /= <<>> THEN "sample_fields" :> key_fields ELSE EmptyDict)

\* Its create_index: writes _index.yaml; run() stops when it returns False.
LegacyCreateIndex ==
    /\ phase = "legacy_split_done"
    /\ IF <<"", "_index.yaml">> \in unwritable
       THEN /\ phase' = "run_failed"
            /\ UNCHANGED index
       ELSE /\ phase' = "legacy_index_done"
            /\ index' = File([metadata |-> [total_objects |-> Len(objects)],
                              objects |-> LET sorted == SortedByName(objects)
                                          IN  [i \in 1..Len(sorted) |->
                                                  LegacyIndexEntry(sorted[i])]])
    /\ UNCHANGED <<objects, relationships, splitPos, splitLog, disk, unwritable, interrupts>>
    /\ UNCHANGED <<searchIndex, categories>>
    /\ UNCHANGED enricherVars
    /\ UNCHANGED parserVars

\* field_info of its create_search_index.
LegacySearchFieldInfo(field) ==
    [name |-> Get(field, "api_name", ""),
     type |-> Get(field, "type", ""),
     required |-> Get(field, "required", FALSE)]
    @@ (IF Has(field, "picklist_values")
        THEN "picklist_values" :> field["picklist_values"] ELSE EmptyDict)
    @@ (IF Has(field, "reference_to") THEN "reference_to" :> field["reference_to"]
        ELSE EmptyDict)
    @@ (IF Has(field, "length") THEN "length" :> field["length"] ELSE EmptyDict)

\* The entry its create_search_index stores under obj_name.
LegacySearchEntry(obj) ==
    LET obj_name == Get(obj, "api_name", "")
        fields   == Get(obj, "fields", <<>>)
    IN  [type |-> Get(obj, "type", "Unknown"),
         label |-> Get(obj, "label", obj_name),
         file |-> <<"objects", obj_name>>,
         fields |-> [i \in 1..Len(fields) |-> LegacySearchFieldInfo(fields[i])]]

\* search_data['search_index']['objects'] of its create_search_index.
LegacySearchData(objs) ==
    LET obj_name(i) == Get(objs[i], "api_name", "")
        entry(i)    == LegacySearchEntry(objs[i])
    IN  Collected(1..Len(objs), obj_name, entry)

\* Its create_search_index: writes _search_index.yaml.
LegacyCreateSearchIndex ==
    /\ phase = "legacy_index_done"
    /\ IF <<"", "_search_index.yaml">> \in unwritable
       THEN /\ phase' = "run_failed"
            /\ UNCHANGED searchIndex
       ELSE /\ phase' = "legacy_search_done"
            /\ searchIndex' = File(LegacySearchData(objects))
    /\ UNCHANGED <<objects, relationships, splitPos, splitLog, disk, unwritable, interrupts>>
    /\ UNCHANGED <<index, categories>>
    /\ UNCHANGED enricherVars
    /\ UNCHANGED parserVars

AutoNext ==
    \/ ParseNext
    \/ SplitSchema
    \/ LegacySplitObject
    \/ LegacySplitReturn
    \/ LegacyCreateIndex
    \/ LegacyCreateSearchIndex

SpecAuto == ParseInit /\ [][AutoNext]_vars

-----------------------------------------------------------------------------
(* Properties of the Splitter.                                             *)

\* Object j of the document has been through the loop of split_objects
\* without raising, and no other object of the document shares its folder.
SplitWritten(j) ==
    /\ j \in 1..(splitPos - 1)
    /\ splitLog[j] = "none"
    /\ \A k \in 1..Len(objects) : k /= j => ObjName(objects[k]) /= ObjName(objects[j])

DistinctApiNames(fields) ==
    \A a, b \in 1..Len(fields) :
        a /= b => Get(fields[a], "api_name", "") /= Get(fields[b], "api_name", "")

\* A core field, minus its annotation, plus the entries of the picklist
\* and formula payload files keyed by its api_name.
Reconstruct(core, part) ==
    LET name == Get(core, "api_name", "")
        base == Pop(core, "_note")
        withP == IF Exists(part.picklists) /\ Has(part.picklists[1].picklists, name)
                 THEN Put(base, "picklist_values", part.picklists[1].picklists[name])
                 ELSE base
    IN  IF Exists(part.formulas) /\ Has(part.formulas[1].formulas, name)
        THEN Put(withP, "formula", part.formulas[1].formulas[name])
        ELSE withP

CoreFieldsOnDisk(j) == Partition(disk, ObjName(objects[j])).schema[1].object.fields

\* C1: partition losslessness.  For every split object whose fields have
\* pairwise distinct api_names, every field is got back from its core
\* record without the annotation plus its picklist and formula entries.
C1_PartitionLossless ==
    \A j \in 1..Len(objects) :
        (SplitWritten(j) /\ DistinctApiNames(objects[j]["fields"])) =>
            /\ Len(CoreFieldsOnDisk(j)) = Len(objects[j]["fields"])
            /\ \A i \in 1..Len(objects[j]["fields"]) :
                  Reconstruct(CoreFieldsOnDisk(j)[i], Partition(disk, ObjName(objects[j])))
                      = objects[j]["fields"][i]

\* C1 witness: an object with a field that has both picklist values and a
\* formula, and a field with an empty picklist_values list, has been split.
C1_Witness ==
    \E j \in 1..Len(objects) :
        /\ SplitWritten(j)
        /\ DistinctApiNames(objects[j]["fields"])
        /\ \E a, b \in 1..Len(objects[j]["fields"]) :
              /\ HasPicklistValues(objects[j]["fields"][a])
              /\ HasFormula(objects[j]["fields"][a])
              /\ Has(objects[j]["fields"][b], "picklist_values")
              /\ objects[j]["fields"][b]["picklist_values"] = <<>>

Annotations(core) == IF Has(core, "_note") THEN {core["_note"]} ELSE {}

\* C2: in the core schema payload every field whose picklist_values was
\* stripped carries an annotation pointing to the picklists payload, every
\* field whose formula was stripped carries one pointing to the formulas
\* payload, and a field from which nothing was stripped carries none.
C2_AnnotationPerStrippedValue ==
    \A j \in 1..Len(objects) :
        SplitWritten(j) =>
            \A i \in 1..Len(objects[j]["fields"]) :
                LET orig == objects[j]["fields"][i]
                    core == CoreFieldsOnDisk(j)[i]
                    name == ObjName(objects[j])
                IN  /\ HasPicklistValues(orig) => PicklistNote(name) \in Annotations(core)
                    /\ HasFormula(orig) => FormulaNote(name) \in Annotations(core)
                    /\ (~HasPicklistValues(orig) /\ ~HasFormula(orig)) => Annotations(core) = {}

-----------------------------------------------------------------------------
(* Properties of the Enricher.                                             *)

\* The payload enrich_object_schema works on: schema.yaml of the folder
\* layout, or else the single legacy file.
WorkingSchema(part) == IF Exists(part.schema) THEN part.schema[1] ELSE part.legacy[1]

WorkingFields(part) == Get(Get(WorkingSchema(part), "object", EmptyDict), "fields", <<>>)

PicklistPayload(part) ==
    IF Exists(part.picklists) THEN part.picklists[1].picklists ELSE EmptyDict

\* The call of enrich_object_schema about to be made is a repeat: the call
\* before it was on the same object, wrote its payloads and returned True.
RepeatedCall ==
    /\ phase = "enrich"
    /\ ~dryRun
    /\ enrichPos \in 2..Len(toProcess)
    /\ toProcess[enrichPos] = toProcess[enrichPos - 1]
    /\ returns[enrichPos - 1]

\* C3: enrichment idempotence.  A second run of enrich_object_schema on the
\* same object with the same org data leaves the core schema, picklist and
\* formula payloads as the first run left them.
C3_EnrichmentIdempotent == [][RepeatedCall => disk' = disk]_vars

\* C3 witness: an object has been enriched twice in a row, the runs filled
\* attributes and wrote a picklist payload each time.
C3_Witness ==
    /\ ~dryRun
    /\ Len(returns) = 2 /\ returns[1] /\ returns[2]
    /\ toProcess[1] = toProcess[2]
    /\ stats.picklist_files_created = 2
    /\ stats.formula_files_created = 2

\* The options of an org field that the org does not flag inactive.
NotFlaggedInactive(pv) == ~(Has(pv, "active") /\ pv["active"] = FALSE)

Values(options) == [i \in 1..Len(options) |-> options[i]["value"]]

\* The picklist fields of the schema for which the org holds an option it
\* does not flag inactive, each with those options.
CurrentPicklists(object_name) ==
    LET records == Get(Get(org[object_name], "result", EmptyDict), "fields", <<>>)
        names == {Get(WorkingFields(Partition(disk, object_name))[i], "api_name", None) :
                     i \in 1..Len(WorkingFields(Partition(disk, object_name)))}
        options(n) == LET r == CHOOSE r \in {records[i] : i \in 1..Len(records)} :
                                  r["name"] = n
                      IN  SelectSeq(Get(r, "picklistValues", <<>>), NotFlaggedInactive)
        listed == {n \in names :
                      \E i \in 1..Len(records) :
                          /\ records[i]["name"] = n
                          /\ Get(records[i], "type", None) \in {"picklist", "multipicklist"}
                          /\ options(n) /= <<>>}
    IN  [n \in listed |-> Values(options(n))]

\* The last call of enrich_object_schema was not a dry run, was on a
\* folder-structured object and returned True.
EnrichedFolder(object_name) ==
    /\ ~dryRun
    /\ returns /= <<>> /\ returns[Len(returns)]
    /\ toProcess[Len(returns)] = object_name
    /\ Exists(Partition(disk, object_name).schema)

\* C4: after a successful enrichment of a folder-structured object its
\* picklist payload holds exactly the fields for which the org supplies an
\* active option, each with exactly those options, and nothing left over.
C4_PicklistsReplaced ==
    \A object_name \in DOMAIN org :
        EnrichedFolder(object_name) =>
            PicklistPayload(Partition(disk, object_name)) = CurrentPicklists(object_name)

FlaggedActive(pv) == Has(pv, "active") /\ pv["active"] = TRUE

\* C5: for a picklist or multipicklist record of the org,
\* extract_picklist_values returns the values of the options flagged active,
\* in source order, and nothing else; no list when there is none.
C5_ActiveOnly ==
    \A object_name \in DOMAIN org :
        LET records == Get(Get(org[object_name], "result", EmptyDict), "fields", <<>>)
        IN  \A i \in 1..Len(records) :
                Get(records[i], "type", None) \in {"picklist", "multipicklist"} =>
                    LET flagged == SelectSeq(Get(records[i], "picklistValues", <<>>),
                                             FlaggedActive)
                    IN  ExtractPicklistValues(records[i])
                            = IF flagged = <<>> THEN <<>> ELSE <<Values(flagged)>>

\* A call of enrich_object_schema that writes (no dry run) returns True.
EnrichStep ==
    /\ phase = "enrich"
    /\ ~dryRun
    /\ enrichPos <= Len(toProcess)
    /\ returns' = Append(returns, TRUE)

\* The record of the org for a field of the schema (<<>>: none).
OrgRecord(object_name, field) ==
    LET records == Get(Get(org[object_name], "result", EmptyDict), "fields", <<>>)
        hits == {i \in 1..Len(records) : records[i]["name"] = Get(field, "api_name", None)}
    IN  IF hits = {} THEN <<>> ELSE <<records[CHOOSE i \in hits : \A j \in hits : j <= i]>>

PresentAndTruthy(field, key) == Has(field, key) /\ Truthy(key, field[key])

\* What the org supplies for attribute `key`, as the schema would hold it.
SuppliedValue(rec, key) ==
    IF key = "required" THEN ~rec["nillable"]
    ELSE IF key = "reference_to"
         THEN (IF Len(rec["referenceTo"]) = 1
               THEN Str(rec["referenceTo"][1]) ELSE List(rec["referenceTo"]))
    ELSE rec[OrgAttr(key)]

\* The org supplies a value for `key` that the Enricher takes over: a truthy
\* one (for required: nillable false; for reference_to: targets on a field
\* of type reference).
SuppliesTruthy(rec, key) ==
    /\ Has(rec, OrgAttr(key))
    /\ IF key = "required" THEN rec["nillable"] = FALSE
       ELSE IF key = "reference_to"
            THEN Get(rec, "type", None) = "reference" /\ rec["referenceTo"] /= <<>>
       ELSE Truthy(key, rec[OrgAttr(key)])

\* For every field in both the schema and the org, and every scalar
\* attribute: `adopts(rec, key)` says when the org's value is taken over.
FillMissing(before, after, object_name, adopts(_, _)) ==
    /\ Len(after) = Len(before)
    /\ \A i \in 1..Len(before), key \in ScalarKeys :
          LET rec == OrgRecord(object_name, before[i])
          IN  rec /= <<>> =>
                /\ PresentAndTruthy(before[i], key) =>
                      Has(after[i], key) /\ after[i][key] = before[i][key]
                /\ (~PresentAndTruthy(before[i], key) /\ adopts(rec[1], key)) =>
                      Has(after[i], key) /\ after[i][key] = SuppliedValue(rec[1], key)

SuppliesAny(rec, key) == Has(rec, OrgAttr(key))

\* C6 as claimed: an existing truthy attribute is unchanged by the merge; an
\* absent or falsy one takes the org's value whenever the org supplies one.
C6_FillMissingAsClaimed ==
    [][EnrichStep =>
          FillMissing(WorkingFields(Partition(disk, toProcess[enrichPos])),
                      WorkingFields(Partition(disk', toProcess[enrichPos])),
                      toProcess[enrichPos], SuppliesAny)]_vars

\* C6 amended: an existing truthy attribute is unchanged by the merge; an
\* absent or falsy one takes the org's value when that value is truthy
\* (required: when nillable is false; reference_to: when the field is of
\* type reference and has targets), and is otherwise left as it was.
C6_FillMissing ==
    [][EnrichStep =>
          LET before == WorkingFields(Partition(disk, toProcess[enrichPos]))
              after  == WorkingFields(Partition(disk', toProcess[enrichPos]))
          IN  /\ FillMissing(before, after, toProcess[enrichPos], SuppliesTruthy)
              /\ \A i \in 1..Len(before), key \in ScalarKeys :
                    LET rec == OrgRecord(toProcess[enrichPos], before[i])
                    IN  (rec /= <<>> /\ ~PresentAndTruthy(before[i], key)
                         /\ ~SuppliesTruthy(rec[1], key)) =>
                            /\ Has(after[i], key) = Has(before[i], key)
                            /\ Has(before[i], key) => after[i][key] = before[i][key]]_vars

\* C6 witness: a call has left a truthy attribute alone although the org
\* holds another value, and a call has filled an absent or falsy one.
C6_Witness ==
    /\ ~dryRun
    /\ Len(returns) = 1 /\ returns[1]
    /\ stats.fields_enriched = 1
    /\ \E i \in 1..Len(WorkingFields(Partition(disk, "Account"))) :
          LET field == WorkingFields(Partition(disk, "Account"))[i]
              rec   == OrgRecord("Account", field)
          IN  /\ rec /= <<>>
              /\ Has(field, "length") /\ field["length"] = 80
    /\ \E i \in 1..Len(WorkingFields(Partition(disk, "Account"))) :
          LET field == WorkingFields(Partition(disk, "Account"))[i]
              rec   == OrgRecord("Account", field)
          IN  /\ rec /= <<>>
              /\ Has(field, "length") /\ field["length"] = 18
              /\ Has(rec[1], "length") /\ rec[1]["length"] = 80

\* C7: Enricher fault isolation.  A failure on one object skips only that
\* object: the run of enrich_all_objects never ends before the summary, and
\* at the summary every object of the list has been attempted.
C7_EnricherFaultIsolation ==
    /\ phase \in {"enrich", "enrich_summary"}
    /\ phase = "enrich_summary" => Len(returns) = Len(toProcess)

Processed(i) == returns[i]

ErrorNames(object_name) ==
    \E k \in 1..Len(stats.errors) : stats.errors[k][1] = object_name

\* C8: no failure is silently swallowed.  In a run that is not a dry run,
\* every object for which enrich_object_schema returned False has an entry
\* in enrichment_stats['errors'] that names it.
C8_NoSilentFailure ==
    ~dryRun =>
        \A i \in 1..Len(returns) : ~Processed(i) => ErrorNames(toProcess[i])

-----------------------------------------------------------------------------
(* Properties of the Parser.                                               *)

\* The entry of schema['objects'] for an object directory.
ParsedObject(obj_name) ==
    parserSchema.objects[CHOOSE k \in 1..Len(parserSchema.objects) :
                             parserSchema.objects[k]["api_name"] = obj_name]

Malformed(doc) == doc.kind \in {"malformed", "unreadable"}

\* C9: tolerant field parsing.  For a parsed object with n field documents
\* of which k are malformed or unreadable, the field list has n entries, in
\* the order of the documents: each malformed one is a placeholder that keeps
\* the api_name of the field and carries a parse-error marker, the others
\* are parsed normally.
C9_TolerantFieldParsing ==
    \A i \in 1..Len(parseLog) :
        (parseLog[i] = "ok" /\ tree.dirs[ObjectDirs[i]].access = "ok") =>
            LET docs   == tree.dirs[ObjectDirs[i]].fields
                stems  == Sorted(DOMAIN docs)
                fields == ParsedObject(ObjectDirs[i])["fields"]
            IN  /\ Len(fields) = Len(stems)
                /\ \A j \in 1..Len(stems) :
                      IF Malformed(docs[stems[j]])
                      THEN /\ fields[j]["api_name"] = stems[j]
                           /\ Has(fields[j], "parse_error")
                      ELSE fields[j] = ParseField(docs[stems[j]], stems[j], ObjectDirs[i]).field[1]

\* C10: Parser fault isolation across objects.  When parse_all_objects
\* returns on a tree of object directories, some of which failed to parse,
\* it returns True, every directory was attempted, every object whose
\* parsing did not fail is in schema['objects'], and metadata.total_objects
\* is the length of schema['objects'].
C10_ParserFaultIsolation ==
    (phase = "parse_done" /\ tree.kind = "dir") =>
        /\ parseRet = "True"
        /\ Len(parseLog) = Len(ObjectDirs)
        /\ \A i \in 1..Len(parseLog) :
              parseLog[i] = "ok" =>
                  \E k \in 1..Len(parserSchema.objects) :
                      parserSchema.objects[k]["api_name"] = ObjectDirs[i]
        /\ parserSchema.total_objects = Len(parserSchema.objects)

\* C10 witness: parse_all_objects has returned after one object failed to
\* parse and another was parsed with a field.
C10_Witness ==
    /\ phase = "parse_done"
    /\ tree.kind = "dir"
    /\ \E i \in 1..Len(parseLog) : parseLog[i] = "failed"
    /\ parserSchema.total_objects = 1
    /\ parserSchema.objects[1]["fields"] /= <<>>

\* The text of the first occurrence of an element of a document, "" when
\* the element does not occur.
FirstText(doc, name) ==
    IF Has(doc.elems, name) /\ doc.elems[name] /= <<>> THEN doc.elems[name][1] ELSE ""

\* The name a well-formed document declares for its field.
DeclaredName(doc, stem) ==
    IF FirstText(doc, "fullName") /= "" THEN FirstText(doc, "fullName")
    ELSE IF doc.values /= <<>> /\ doc.values[1] /= "" THEN doc.values[1]
    ELSE stem

\* The edge a field document calls for: one for a Lookup or MasterDetail
\* field with a reference target, to the first target; none otherwise.
EdgesOf(doc, stem, obj_name) ==
    IF /\ doc.kind = "xml" /\ ~doc.raises
       /\ FirstText(doc, "type") \in {"Lookup", "MasterDetail"}
       /\ FirstText(doc, "referenceTo") /= ""
    THEN <<[from_object |-> obj_name, from_field |-> DeclaredName(doc, stem),
            to_object |-> FirstText(doc, "referenceTo"),
            relationship_type |-> FirstText(doc, "type")]>>
    ELSE <<>>

\* The edges the directories parsed so far call for, in parsing order.
RECURSIVE EdgesUpTo(_)
EdgesUpTo(n) ==
    IF n = 0 THEN <<>>
    ELSE LET obj_name == ObjectDirs[n]
             dir      == tree.dirs[obj_name]
             stems    == Sorted(DOMAIN dir.fields)
         IN  EdgesUpTo(n - 1)
             \o (IF parseLog[n] = "ok" /\ dir.access = "ok"
                 THEN Flatten([j \in 1..Len(stems) |->
                                  EdgesOf(dir.fields[stems[j]], stems[j], obj_name)])
                 ELSE <<>>)

EdgeEnds(edge) ==
    [from_object |-> edge.from_object, from_field |-> edge.from_field,
     to_object |-> edge.to_object, relationship_type |-> edge.relationship_type]

\* C11: relationship extraction.  parse_field appends exactly one edge
\* {from_object, from_field, to_object, relationship_type} for every field
\* of type Lookup or MasterDetail whose document carries a reference target,
\* to the first target when there are several, and no edge for any other
\* field.
C11_RelationshipExtraction ==
    [i \in 1..Len(parserSchema.relationships) |-> EdgeEnds(parserSchema.relationships[i])]
        = EdgesUpTo(Len(parseLog))

\* C11 witness: an object has been parsed whose documents are a
\* MasterDetail field with two reference targets and a field without an
\* edge, and the one edge goes to the first target.
C11_Witness ==
    /\ phase = "parse_done"
    /\ Len(parserSchema.objects) = 1
    /\ Len(parserSchema.objects[1]["fields"]) = 2
    /\ Len(parserSchema.relationships) = 1
    /\ parserSchema.relationships[1].to_object = "Contact"
    /\ \E stem \in DOMAIN tree.dirs[ObjectDirs[1]].fields :
          Get(tree.dirs[ObjectDirs[1]].fields[stem].elems, "referenceTo", <<>>)
              = <<"Contact", "Lead">>

\* C12: every edge of the document a parse run returns corresponds to a
\* field of the document: an object named edge.from_object has a field named
\* edge.from_field whose reference_to is edge.to_object.
C12_EdgesHaveFields ==
    phase = "parse_done" =>
        \A i \in 1..Len(parserSchema.relationships) :
            LET edge == parserSchema.relationships[i]
            IN  \E k \in 1..Len(parserSchema.objects) :
                    /\ parserSchema.objects[k]["api_name"] = edge.from_object
                    /\ \E j \in 1..Len(parserSchema.objects[k]["fields"]) :
                          LET field == parserSchema.objects[k]["fields"][j]
                          IN  /\ field["api_name"] = edge.from_field
                              /\ Has(field, "reference_to")
                              /\ field["reference_to"] = edge.to_object

\* C12 witness: a run has returned in which an object failed to parse and
\* the field of another object gave an edge.
C12_Witness ==
    /\ phase = "parse_done"
    /\ \E i \in 1..Len(parseLog) : parseLog[i] = "failed"
    /\ Len(parserSchema.relationships) = 1
    /\ parserSchema.relationships[1].from_field = "Owner__c"

NoTwoSame(records) ==
    \A a, b \in 1..Len(records) : a /= b => records[a]["api_name"] /= records[b]["api_name"]

\* C13: name uniqueness in the parsed document.  No two objects have the
\* same api_name, and within an object no two fields have the same api_name.
C13_NameUniqueness ==
    /\ NoTwoSame(parserSchema.objects)
    /\ \A k \in 1..Len(parserSchema.objects) : NoTwoSame(parserSchema.objects[k]["fields"])

-----------------------------------------------------------------------------
(* Further properties of the Splitter.                                     *)

\* The iteration of split_objects on objects[splitPos] ends without error.
SplitStepOk ==
    /\ phase = "split"
    /\ splitPos <= Len(objects)
    /\ splitLog' = Append(splitLog, "none")

SomeField(obj, test(_)) ==
    \E i \in 1..Len(Get(obj, "fields", <<>>)) : test(obj["fields"][i])

NonEmptyPicklist(field) == Has(field, "picklist_values") /\ field["picklist_values"] /= <<>>

NonEmptyFormula(field) == Has(field, "formula") /\ field["formula"] /= ""

\* C14: conditional payload emission.  For an object partitioned without
\* error, schema.yaml is written; picklists.yaml is written if and only if a
\* field has a non-empty picklist_values, formulas.yaml if and only if a
\* field has a non-empty formula; metadata.has_picklists and has_formulas of
\* schema.yaml say whether the payload was written.
C14_ConditionalPayloads ==
    [][SplitStepOk =>
          LET obj    == objects[splitPos]
              before == Partition(disk, ObjName(obj))
              after  == Partition(disk', ObjName(obj))
              picks  == SomeField(obj, NonEmptyPicklist)
              forms  == SomeField(obj, NonEmptyFormula)
          IN  /\ Exists(after.schema)
              /\ after.schema[1].object.api_name = Get(obj, "api_name", None)
              /\ after.schema[1].metadata.has_picklists = picks
              /\ after.schema[1].metadata.has_formulas = forms
              /\ IF picks
                 THEN Exists(after.picklists)
                      /\ after.picklists[1].metadata.object = ObjName(obj)
                      /\ after.picklists[1].picklists /= EmptyDict
                 ELSE after.picklists = before.picklists
              /\ IF forms
                 THEN Exists(after.formulas)
                      /\ after.formulas[1].metadata.object = ObjName(obj)
                      /\ after.formulas[1].formulas /= EmptyDict
                 ELSE after.formulas = before.formulas]_vars

\* C14 witness: two objects have been partitioned without error, one with
\* picklists.yaml and no formulas.yaml, the other with formulas.yaml and no
\* picklists.yaml.
C14_Witness ==
    /\ splitLog = <<"none", "none">>
    /\ ObjName(objects[1]) /= ObjName(objects[2])
    /\ Exists(Partition(disk, ObjName(objects[1])).picklists)
    /\ ~Exists(Partition(disk, ObjName(objects[1])).formulas)
    /\ ~Exists(Partition(disk, ObjName(objects[2])).picklists)
    /\ Exists(Partition(disk, ObjName(objects[2])).formulas)

-----------------------------------------------------------------------------
(* Properties of the Parser followed by the Splitter.                      *)

IsPicklistField(field) == Get(field, "type", "") \in {"Picklist", "MultiselectPicklist"}

\* The entries of _index.yaml for obj_name.
IndexEntriesOf(obj_name) ==
    {index[1].objects[k] : k \in {j \in 1..Len(index[1].objects) :
                                      index[1].objects[j].api_name = obj_name}}

\* C15: for every object without a field of type Picklist or
\* MultiselectPicklist, once the tree was parsed, the document split and both
\* indexes built, there is no picklists.yaml for it, its entry of the master
\* index has has_picklists false and no picklists path, and its entry of the
\* search index has no picklists path and no field flagged
\* has_picklist_values.
C15_NoPicklistNoPayload ==
    phase \in {"search_done", "categories_done"} =>
        \A i \in 1..Len(objects) :
            ~SomeField(objects[i], IsPicklistField) =>
                LET obj_name == objects[i]["api_name"]
                    found    == searchIndex[1][obj_name]
                IN  /\ ~Exists(Partition(disk, obj_name).picklists)
                    /\ IndexEntriesOf(obj_name) /= {}
                    /\ \A entry \in IndexEntriesOf(obj_name) :
                          /\ entry.has_picklists = FALSE
                          /\ entry.files.picklists = NoPath
                    /\ found.files.picklists = NoPath
                    /\ \A k \in 1..Len(found.fields) :
                          ~Has(found.fields[k], "has_picklist_values")

\* C15 witness: both indexes are built for an object parsed from a directory
\* whose only field document is of type Text and carries a valueSet.
C15_Witness ==
    /\ phase = "categories_done"
    /\ Len(objects) = 1
    /\ Len(objects[1]["fields"]) = 1
    /\ Get(objects[1]["fields"][1], "type", "") = "Text"
    /\ \E stem \in DOMAIN tree.dirs[objects[1]["api_name"]].fields :
          LET doc == tree.dirs[objects[1]["api_name"]].fields[stem]
          IN  doc.kind = "xml" /\ doc.values /= <<>>
    /\ Exists(index)
    /\ Exists(searchIndex)

\* The field records of the search index, over all objects.
SearchFieldRecords ==
    UNION {{searchIndex[1][n].fields[k] : k \in 1..Len(searchIndex[1][n].fields)} :
              n \in DOMAIN searchIndex[1]}

\* C16: no field record of the search index written after schema generation
\* holds the field's picklist values or its formula text.
C16_SearchIndexHasNoPayload ==
    Exists(searchIndex) =>
        \A record \in SearchFieldRecords :
            ~Has(record, "picklist_values") /\ ~Has(record, "formula")

-----------------------------------------------------------------------------
(* Properties of the categorisation.                                       *)

\* The objects of the bundle categories/<category>.yaml (none without file).
Bundle(category) ==
    IF Has(categories, category)
    THEN {categories[category][1].objects[k] :
             k \in 1..Len(categories[category][1].objects)}
    ELSE {}

\* The rules of the categorisation, in their order.
RuleCategory(api_name) ==
    IF api_name \in {"Account", "Contact", "Lead", "User", "Group", "Profile"} THEN "core"
    ELSE IF api_name \in {"Opportunity", "Quote", "Contract", "Order", "Product2",
                          "PricebookEntry", "OpportunityLineItem", "QuoteLineItem",
                          "OrderItem"} THEN "sales"
    ELSE IF api_name \in {"Case", "Solution", "Entitlement", "ServiceContract", "WorkOrder",
                          "WorkOrderLineItem", "ServiceAppointment"} THEN "service"
    ELSE IF api_name \in {"Campaign", "CampaignMember", "Lead"} THEN "marketing"
    ELSE IF api_name \in {"Task", "Event", "EmailMessage"} THEN "activities"
    ELSE IF api_name \in {"HealthCloudGA__Plan__c"} THEN "healthcare"
    ELSE IF api_name \in {"Order__c", "Invoice__c"} THEN "custom"
    ELSE "other"

CategoryWritable(category) == <<"categories", category>> \notin unwritable

\* C17: once the bundles are written, every object is in the bundle of the
\* first of core, sales, service, marketing, activities whose list holds its
\* api_name; if none does, in healthcare when the name starts with
\* HealthCloudGA__, else in custom when it ends with __c, else in other.
C17_OrderedFirstMatch ==
    phase = "categories_done" =>
        \A i \in 1..Len(objects) :
            LET category == RuleCategory(objects[i]["api_name"])
            IN  CategoryWritable(category) => objects[i] \in Bundle(category)

\* C17 witness: the bundles are written for Lead, which two lists hold, and
\* for an object of the healthcare namespace whose name ends with __c.
C17_Witness ==
    /\ phase = "categories_done"
    /\ Len(objects) = 2
    /\ objects[1]["api_name"] = "Lead"
    /\ objects[2]["api_name"] = "HealthCloudGA__Plan__c"
    /\ objects[1] \in Bundle("core")
    /\ objects[2] \in Bundle("healthcare")

\* The categories whose bundle holds obj.
BundlesOf(obj) == {category \in DOMAIN categories : obj \in Bundle(category)}

\* C18: once the bundles are written, none of them failing to be written,
\* every object is in exactly one bundle, and the bundle depends on the
\* api_name only: objects of the same api_name are in the same bundle,
\* whatever else the run was given.
C18_ExactlyOneCategory ==
    phase = "categories_done" /\ (\A path \in unwritable : path[1] /= "categories") =>
        /\ \A i \in 1..Len(objects) : Cardinality(BundlesOf(objects[i])) = 1
        /\ \A i, j \in 1..Len(objects) :
              objects[i]["api_name"] = objects[j]["api_name"] =>
                  BundlesOf(objects[i]) = BundlesOf(objects[j])
        /\ \A c \in DOMAIN categories :
              categories[c][1].metadata.object_count = Len(categories[c][1].objects)

\* C18 witness: the bundles are written for two objects that fall into
\* different categories, one of them by a name that two lists hold.
C18_Witness ==
    /\ phase = "categories_done"
    /\ Len(objects) = 2
    /\ objects[1]["api_name"] = "Campaign"
    /\ objects[2]["api_name"] = "Lead"
    /\ BundlesOf(objects[1]) = {"marketing"}
    /\ BundlesOf(objects[2]) = {"core"}

-----------------------------------------------------------------------------
(* Frame properties of the Splitter.                                       *)

\* Every object of a bundle is one of the loaded objects, and none of its
\* fields carries the annotation of a core field.
BundlesHoldLoadedObjects ==
    \A category \in DOMAIN categories :
        \A obj \in Bundle(category) :
            /\ \E i \in 1..Len(objects) : objects[i] = obj
            /\ \A k \in 1..Len(obj["fields"]) : ~Has(obj["fields"][k], "_note")

\* C19: no step of the Splitter changes the loaded object list, and the
\* bundles written at the end hold the objects as loaded, their fields not
\* annotated and still carrying picklist_values and formula.
C19_LoadedDocumentUnchanged ==
    [][/\ objects' = objects
       /\ phase' = "categories_done" => BundlesHoldLoadedObjects']_vars

\* C19 witness: an object loaded with a field that has picklist values and a
\* formula was partitioned without error, its core field annotated, and its
\* bundle written with the field as loaded.
C19_Witness ==
    /\ phase = "categories_done"
    /\ Len(objects) = 1
    /\ splitLog = <<"none">>
    /\ objects[1]["fields"] = <<FullField>>
    /\ Has(Partition(disk, objects[1]["api_name"]).schema[1].object.fields[1], "_note")
    /\ objects[1] \in Bundle(Category(objects[1]["api_name"]))

-----------------------------------------------------------------------------
(* Fault isolation of the Splitter.                                        *)

\* No path of the partition of obj_name fails to be created or written.
Writable(obj_name) == \A kind \in FileKinds : <<obj_name, kind>> \notin unwritable

\* A step of the loop of split_objects.
SplitStep ==
    /\ phase = "split"
    /\ splitPos <= Len(objects)
    /\ splitPos' = splitPos + 1

\* A step of the loop leaves the partition of every other object alone, and
\* on an object all of whose paths can be written it writes schema.yaml with
\* all fields, picklists.yaml and formulas.yaml where a field has the payload.
IsolatedStep ==
    SplitStep =>
        LET obj      == objects[splitPos]
            obj_name == ObjName(obj)
            after    == Partition(disk', obj_name)
        IN  /\ \A other \in (DOMAIN disk) \ {obj_name} : disk'[other] = disk[other]
            /\ Len(splitLog') = splitPos
            /\ Writable(obj_name) =>
                  /\ splitLog'[splitPos] = "none"
                  /\ Exists(after.schema)
                  /\ after.schema[1].object.api_name = obj_name
                  /\ Len(after.schema[1].object.fields) = Len(obj["fields"])
                  /\ after.schema[1].related_relationships
                        = SelectRelated(relationships, obj_name)
                  /\ SomeField(obj, NonEmptyPicklist) =>
                        /\ Exists(after.picklists)
                        /\ after.picklists[1].metadata.object = obj_name
                  /\ SomeField(obj, NonEmptyFormula) =>
                        /\ Exists(after.formulas)
                        /\ after.formulas[1].metadata.object = obj_name

RunFilesWritable ==
    <<"", "_index.yaml">> \notin unwritable /\ <<"", "_search_index.yaml">> \notin unwritable

\* C20: fault isolation of the Splitter.  Whatever paths of other objects
\* cannot be created or written, split_objects writes the whole partition of
\* each object whose paths can be, one object per step in input order; and
\* when the index files can be written the run reaches the end of
\* create_categorized_schemas with both indexes built.
C20_SplitterFaultIsolation ==
    /\ [][IsolatedStep]_vars
    /\ RunFilesWritable ~>
          (phase = "categories_done" /\ Exists(index) /\ Exists(searchIndex))

\* C20 witness: the partition of Lead failed, the partition of Account that
\* follows it is whole, and the run has written the indexes and the bundles.
C20_Witness ==
    /\ phase = "categories_done"
    /\ Len(objects) = 2
    /\ ObjName(objects[1]) = "Lead"
    /\ ObjName(objects[2]) = "Account"
    /\ splitLog[1] /= "none"
    /\ splitLog[2] = "none"
    /\ Exists(Partition(disk, "Account").schema)
    /\ Exists(Partition(disk, "Account").picklists)
    /\ Exists(Partition(disk, "Account").formulas)
    /\ Exists(index)
    /\ Exists(searchIndex)
    /\ Has(categories, "core")

-----------------------------------------------------------------------------
(* Properties of the master index.                                         *)

\* The entries of _index.yaml.
IndexEntries == index[1].objects

\* How many objects have the api_name and the number of fields.
ObjectsLike(api_name, field_count) ==
    Cardinality({i \in 1..Len(objects) :
                    /\ objects[i]["api_name"] = api_name
                    /\ Len(objects[i]["fields"]) = field_count})

\* How many entries have the api_name and the field_count.
EntriesLike(api_name, field_count) ==
    Cardinality({k \in 1..Len(IndexEntries) :
                    /\ IndexEntries[k].api_name = api_name
                    /\ IndexEntries[k].field_count = field_count})

\* C21: the master index has one entry per object, each with the number of
\* fields of its object as field_count, and the entries are in
\* non-decreasing order of api_name.
C21_IndexSortedOnePerObject ==
    Exists(index) =>
        /\ Len(IndexEntries) = Len(objects)
        /\ index[1].metadata.total_objects = Len(objects)
        /\ \A i \in 1..Len(objects) :
              EntriesLike(objects[i]["api_name"], Len(objects[i]["fields"]))
                  = ObjectsLike(objects[i]["api_name"], Len(objects[i]["fields"]))
        /\ \A a, b \in 1..Len(IndexEntries) :
              a < b => NameRank(IndexEntries[a].api_name) <= NameRank(IndexEntries[b].api_name)

\* C21 witness: the index is written for a document that has Lead before
\* Account, with different numbers of fields.
C21_Witness ==
    /\ Exists(index)
    /\ Len(objects) = 2
    /\ objects[1]["api_name"] = "Lead"
    /\ objects[2]["api_name"] = "Account"
    /\ Len(objects[1]["fields"]) /= Len(objects[2]["fields"])
    /\ IndexEntries[1].api_name = "Account"
    /\ IndexEntries[1].field_count = Len(objects[2]["fields"])

Min(a, b) == IF a < b THEN a ELSE b

\* The preview of the claim for an object: its first min(10, n) fields, each
\* as name and type.
FullPreview(obj) ==
    [k \in 1..Min(10, Len(obj["fields"])) |->
        <<obj["fields"][k]["api_name"], Get(obj["fields"][k], "type", "")>>]

\* C22: in the master index built from a parsed tree, the entry of an object
\* has the preview of its first min(10, n) fields, in order, and has no
\* preview exactly when the object has no field.
C22_PreviewOfFirstFields ==
    Exists(index) =>
        \A i \in 1..Len(objects) :
            \A entry \in IndexEntriesOf(objects[i]["api_name"]) :
                /\ Has(entry, "sample_fields") <=> Len(objects[i]["fields"]) > 0
                /\ Has(entry, "sample_fields") =>
                      entry["sample_fields"] = FullPreview(objects[i])

-----------------------------------------------------------------------------
(* Frame properties of the Enricher.                                       *)

\* C23: a call of enrich_object_schema that writes leaves the field list of
\* the object with the same length and the same api_names in the same
\* order, leaves every field the org does not know as it was, and leaves
\* every field with all the attribute keys it had.
C23_EnricherOnlyAdds ==
    [][EnrichStep =>
          LET before == WorkingFields(Partition(disk, toProcess[enrichPos]))
              after  == WorkingFields(Partition(disk', toProcess[enrichPos]))
          IN  /\ Len(after) = Len(before)
              /\ \A i \in 1..Len(before) :
                    /\ Get(after[i], "api_name", None) = Get(before[i], "api_name", None)
                    /\ DOMAIN before[i] \subseteq DOMAIN after[i]
                    /\ OrgRecord(toProcess[enrichPos], before[i]) = <<>> =>
                          after[i] = before[i]]_vars

\* C23 witness: a call has written the schema of an object after filling
\* attributes, one of the fields of the object being unknown to the org.
C23_Witness ==
    /\ ~dryRun
    /\ Len(returns) = 1 /\ returns[1]
    /\ stats.fields_enriched > 0
    /\ LET fields == WorkingFields(Partition(disk, toProcess[1]))
       IN  /\ Len(fields) >= 2
           /\ \E i \in 1..Len(fields) : OrgRecord(toProcess[1], fields[i]) = <<>>
           /\ \E i \in 1..Len(fields) : OrgRecord(toProcess[1], fields[i]) /= <<>>

\* The fields of every schema on disk that can be read.
FieldsOnDisk ==
    UNION {{WorkingFields(disk[n])[i] : i \in 1..Len(WorkingFields(disk[n]))} :
              n \in {m \in DOMAIN disk : Exists(disk[m].schema) \/ Exists(disk[m].legacy)}}

\* C24: every field of a schema on disk that has reference_to holds a single
\* object name there, whatever the org reported.
C24_SingleReferenceTarget ==
    \A field \in FieldsOnDisk :
        Has(field, "reference_to") => Has(field["reference_to"], "str")

-----------------------------------------------------------------------------
(* Further properties of the Parser.                                       *)

NumericElements == {"length", "precision", "scale"}

\* The texts used that are integers, with their values.
IntegerTexts == ("0" :> 0) @@ ("18" :> 18) @@ ("255" :> 255)

\* The element is there with a text that is not an integer.
BadNumber(doc, name) ==
    HasText(doc.elems, name) /\ doc.elems[name][1] \notin DOMAIN IntegerTexts

\* The documents of a directory that parse_field takes for XML, in the order
\* of their names.
XmlStems(dir) == SelectSeq(Sorted(DOMAIN dir.fields), LAMBDA stem : dir.fields[stem].kind = "xml")

\* C25: tolerant numeric parsing.  A field document whose length, precision
\* or scale text is not an integer gives the normal field record: no
\* parse-error marker, the attribute with the bad text absent, a numeric
\* attribute with a good text and the name and type parsed as usual; and
\* the other documents of the object give their fields as well.
C25_TolerantNumericParsing ==
    \A i \in 1..Len(parseLog) :
        (parseLog[i] = "ok" /\ tree.dirs[ObjectDirs[i]].access = "ok") =>
            LET dir    == tree.dirs[ObjectDirs[i]]
                stems  == XmlStems(dir)
                fields == ParsedObject(ObjectDirs[i])["fields"]
            IN  /\ Len(fields) = Len(stems)
                /\ \A j \in 1..Len(stems) :
                      LET doc == dir.fields[stems[j]]
                      IN  (~doc.raises /\ \E name \in NumericElements : BadNumber(doc, name)) =>
                              /\ ~Has(fields[j], "parse_error")
                              /\ \A name \in NumericElements :
                                    IF BadNumber(doc, name)
                                    THEN ~Has(fields[j], name)
                                    ELSE HasText(doc.elems, name) =>
                                            /\ Has(fields[j], name)
                                            /\ fields[j][name] = IntegerTexts[doc.elems[name][1]]
                              /\ HasText(doc.elems, "fullName") =>
                                    fields[j]["api_name"] = Text(doc.elems, "fullName")
                              /\ HasText(doc.elems, "type") =>
                                    Has(fields[j], "type")
                                    /\ fields[j]["type"] = Text(doc.elems, "type")

\* C25 witness: an object was parsed from two documents, the first with a
\* length that is not an integer and a precision that is, the second parsed
\* into a field with a length.
C25_Witness ==
    /\ phase = "parse_done"
    /\ Len(parserSchema.objects) = 1
    /\ LET fields == parserSchema.objects[1]["fields"]
           dir    == tree.dirs[parserSchema.objects[1]["api_name"]]
       IN  /\ Len(fields) = 2
           /\ BadNumber(dir.fields["F1"], "length")
           /\ ~Has(fields[1], "length")
           /\ Has(fields[1], "precision")
           /\ Has(fields[2], "length")

\* The names of a directory in lexicographic order, counted out by rank.
InOrder(names) ==
    [i \in 1..Cardinality(names) |->
        CHOOSE n \in names : Cardinality({m \in names : PathRank(m) < PathRank(n)}) = i - 1]

\* What the documents of one directory give when they are parsed one after
\* the other in lexicographic order of their names.
ParsedInOrder(docs, Parse(_, _)) ==
    Flatten([i \in 1..Cardinality(DOMAIN docs) |->
                Parse(docs[InOrder(DOMAIN docs)[i]], InOrder(DOMAIN docs)[i])])

-----------------------------------------------------------------------------
(* The dry run of the Enricher.                                            *)

\* C28: a dry run modifies no file.  While enrich_all_objects runs with
\* dry_run true, no step creates or changes a core schema, picklist or
\* formula payload file, in the folder layout or the legacy one, and
\* objects_processed, picklist_files_created and formula_files_created stay
\* 0.
C28_DryRunWritesNothing ==
    [][dryRun =>
          /\ disk' = disk
          /\ stats'.objects_processed = 0
          /\ stats'.picklist_files_created = 0
          /\ stats'.formula_files_created = 0]_vars

\* C28 witness: a dry run over a folder-structured object has counted a
\* picklist it would have written, and enrich_object_schema returned True.
C28_Witness ==
    /\ dryRun
    /\ returns /= <<>>
    /\ returns[1]
    /\ stats.picklists_added > 0
    /\ Exists(Partition(disk, "Account").schema)

-----------------------------------------------------------------------------
(* Interrupted runs of the Splitter.                                       *)
(*                                                                         *)
(* The process can be ended at any point of run(); what it has written     *)
(* stays, and the file it was writing is cut off.  The next run is a new   *)
(* process on the same input document and the same output directory.       *)

\* A file cut off in the middle of its write.
Truncated == File(Unloadable)

\* The files of obj_name when the process ends inside the iteration of
\* split_objects for obj: a prefix of the writes of the iteration, the last
\* of them possibly cut off.
HalfWritten(old, obj, obj_name) ==
    LET m    == ExtractFieldMetadata(Get(obj, "fields", <<>>), obj_name)
        full == SplitPartition(old, obj, obj_name)
        made == [old EXCEPT !.folder = TRUE]
        core == [made EXCEPT !.schema = full.schema]
        pick == [core EXCEPT !.picklists = full.picklists]
    IN  {old, made, [made EXCEPT !.schema = Truncated], core}
        \cup (IF m.picklists /= EmptyDict
              THEN {[core EXCEPT !.picklists = Truncated], pick} ELSE {})
        \cup (IF m.formulas /= EmptyDict
              THEN {[pick EXCEPT !.formulas = Truncated]} ELSE {})

\* The category files when the process ends inside the loop of
\* create_categorized_schemas: the files of the categories met before
\* objects[cut] are written, that of the category first met at objects[cut]
\* is cut off.
HalfCategorized(cut) ==
    LET categorized == Categorized(objects)
        first(c) == CHOOSE i \in 1..Len(objects) :
                        /\ Category(Get(objects[i], "api_name", "")) = c
                        /\ \A j \in 1..(i - 1) : Category(Get(objects[j], "api_name", "")) /= c
        written == {c \in DOMAIN categorized : first(c) < cut}
        cutoff  == {c \in DOMAIN categorized : first(c) = cut}
    IN  [c \in (DOMAIN categories) \cup written \cup cutoff |->
            IF c \in written THEN File(CategoryData(c, categorized[c]))
            ELSE Truncated]

\* The process ends (signal, power loss) while run() is in split_objects,
\* create_index, create_search_index or create_categorized_schemas, or
\* after them.
Interrupt ==
    /\ phase \in {"split", "split_done", "index_done", "search_done", "categories_done"}
    /\ interrupts < MaxInterrupts
    /\ interrupts' = interrupts + 1
    /\ phase' = "interrupted"
    /\ IF phase = "split" /\ splitPos <= Len(objects)
       THEN LET obj      == objects[splitPos]
                obj_name == Get(obj, "api_name", "Unknown")
            IN  \E part \in HalfWritten(Partition(disk, obj_name), obj, obj_name) :
                    disk' = IF part = Partition(disk, obj_name) THEN disk
                            ELSE Put(disk, obj_name, part)
       ELSE UNCHANGED disk
    /\ index' \in IF phase = "split_done" THEN {index, Truncated} ELSE {index}
    /\ searchIndex' \in IF phase = "index_done" THEN {searchIndex, Truncated}
                        ELSE {searchIndex}
    /\ IF phase = "search_done"
       THEN \E cut \in 0..Len(objects) : categories' = HalfCategorized(cut)
       ELSE UNCHANGED categories
    /\ UNCHANGED <<objects, relationships, splitPos, splitLog, unwritable>>
    /\ UNCHANGED enricherVars
    /\ UNCHANGED parserVars

\* A new process runs the Splitter on the same input document and output
\* directory: __init__, load_schema and create_directories, which finds the
\* directories there (mkdir with exist_ok).
Rerun ==
    /\ phase = "interrupted"
    /\ splitPos' = 1
    /\ splitLog' = <<>>
    /\ phase' = "split"
    /\ UNCHANGED <<objects, relationships, disk, unwritable, interrupts>>
    /\ UNCHANGED <<index, searchIndex, categories>>
    /\ UNCHANGED enricherVars
    /\ UNCHANGED parserVars

\* The objects of the documents of SpecRecover: with both payloads, of the
\* same name with none, with none, and custom.
RecoverObjects ==
    {[api_name |-> "Account", fields |-> <<FullField>>],
     [api_name |-> "Account", fields |-> <<[api_name |-> "F2"]>>],
     [api_name |-> "Lead", fields |-> <<[api_name |-> "F1"]>>],
     [api_name |-> "Order__c", fields |-> <<FullField, [api_name |-> "F2"]>>]}

\* A document of up to MaxObjects objects, split into an empty tree in which
\* every path can be written.
RecoverInit ==
    /\ objects \in SeqsUpTo(RecoverObjects, MaxObjects)
    /\ relationships = <<>>
    /\ unwritable = {}
    /\ RunStart

RecoverNext == RunNext \/ Interrupt \/ Rerun

SpecRecover == RecoverInit /\ [][RecoverNext]_vars

\* What split_objects leaves of the objects objs in the tree d.
RECURSIVE SplitInto(_, _)
SplitInto(d, objs) ==
    IF objs = <<>> THEN d
    ELSE LET obj_name == Get(Head(objs), "api_name", "Unknown")
         IN  SplitInto(Put(d, obj_name,
                           SplitPartition(Partition(d, obj_name), Head(objs), obj_name)),
                       Tail(objs))

\* C27: recovery by regeneration.  When a run of the Splitter completes,
\* whatever runs on the same document were interrupted before it and
\* whatever they left half-written, the tree holds the files, with the
\* contents, that one uninterrupted run on the document leaves in an empty
\* output directory (timestamps are not modelled).
C27_RecoveryByRegeneration ==
    phase = "categories_done" =>
        /\ disk = SplitInto(EmptyDict, objects)
        /\ index = File(IndexData(objects))
        /\ searchIndex = File(SearchData(objects))
        /\ categories = [c \in DOMAIN Categorized(objects) |->
                            File(CategoryData(c, Categorized(objects)[c]))]

\* C27 witness: a run over two objects has completed after an interrupted
\* one, the tree holding a picklist payload.
C27_Witness ==
    /\ phase = "categories_done"
    /\ interrupts > 0
    /\ Len(objects) = 2
    /\ \E n \in DOMAIN disk : Exists(disk[n].picklists)

-----------------------------------------------------------------------------
(* Presence flags and payload files.                                       *)

\* The folder-structured objects of the schema directory whose core schema
\* can be loaded.
FolderObjects ==
    {n \in DOMAIN disk : Exists(disk[n].schema) /\ disk[n].schema[1] /= Unloadable}

\* C29: presence flags agree with the files.  After one split and any
\* number of successful enrichment passes, for every folder-structured
\* object metadata.has_picklists of the core schema is true if and only if
\* the picklist payload file exists, and metadata.has_formulas is true if
\* and only if the formula payload file exists.
C29_FlagsAgreeWithFiles ==
    \A n \in FolderObjects :
        LET metadata == disk[n].schema[1]["metadata"]
        IN  /\ metadata["has_picklists"] <=> Exists(disk[n].picklists)
            /\ metadata["has_formulas"] <=> Exists(disk[n].formulas)

-----------------------------------------------------------------------------
(* Paths of the indexes.                                                   *)

\* The path objects/<name>/<file> names a file of the tree; the tree was
\* empty when the run began, so the file was written in this run.
NamesWrittenFile(path) ==
    /\ Len(path) = 3
    /\ path[1] = "objects"
    /\ LET part == Partition(disk, path[2])
       IN  \/ path[3] = "schema.yaml" /\ Exists(part.schema)
           \/ path[3] = "picklists.yaml" /\ Exists(part.picklists)
           \/ path[3] = "formulas.yaml" /\ Exists(part.formulas)

PathsHold(files) ==
    /\ NamesWrittenFile(files.schema)
    /\ files.picklists /= NoPath => NamesWrittenFile(files.picklists)
    /\ files.formulas /= NoPath => NamesWrittenFile(files.formulas)

\* C30: index paths refer to existing partitions.  After a run of the
\* Splitter that completes, in every entry of the master index and of the
\* search index the core schema path names a file split_objects wrote in
\* that run, and a picklists or formulas path that is not null names a
\* payload file that was written, also when the partition of some object
\* could not be written.
C30_IndexPathsExist ==
    phase = "categories_done" =>
        /\ \A k \in 1..Len(index[1].objects) : PathsHold(index[1].objects[k].files)
        /\ \A n \in DOMAIN searchIndex[1] : PathsHold(searchIndex[1][n].files)

=============================================================================
